---- MODULE Spec2Model ----
(***************************************************************************)
(* rofi-randr: a rofi script that reconfigures monitor outputs through a   *)
(* sequence of single-choice menus.  Every invocation of the program reads *)
(* the choices made so far from ROFI_DATA and the newest choice from       *)
(* argv[1], parses the resulting token queue against the live output set   *)
(* of the display backend, and either prints the next menu or applies the  *)
(* completed action through exactly one backend method.                    *)
(*                                                                         *)
(* Strings are TLA+ strings and are taken apart character by character     *)
(* (split on ':' and '<', trim), as the program does.  Refresh rates are   *)
(* integers in mHz.  The backend connection itself is taken to be          *)
(* reachable: queries answer, state-changing commands may fail.            *)
(*                                                                         *)
(* Spec is a session: rofi runs the program once per choice.  DrvSpec is   *)
(* one call of Action::parse, Action::apply or supported_operations from   *)
(* any state of the outputs.  PosSpec is one set_position of the           *)
(* compositor driver from any layout; there the integers of a rectangle    *)
(* have the range I32Min..I32Max, which stands for the range of i32.       *)
(* LayoutSpec is that call on three outputs, made once and then repeated.  *)
(* ModeSpec is one list query of a driver, or one list menu built from it, *)
(* for any sequence of modes the display server may report.                *)
(***************************************************************************)
EXTENDS Integers, Sequences, FiniteSets, TLC

VARIABLES
    backend,    \* name of the driver chosen by run(): backend::from_name
    outputs,    \* the display server's outputs, in the order it reports them
    rofi_data,  \* the ROFI_DATA string rofi hands to the next invocation
    chosen,     \* history: the tokens the user chose so far (Back undoes one)
    args,       \* the token queue get_args() returned in the last invocation
    seen,       \* the output entries the last invocation/call worked on
    result,     \* what the last invocation/call produced
    calls,      \* the backend methods the last invocation/call invoked
    sent,       \* the commands that reached the display server in it
    error,      \* the error the last invocation/call ended with ("": none)
    exit_code,  \* process exit status of the last invocation (-1: none yet)
    reply,      \* what the environment decided in the last invocation/call
    probe,      \* the last supported_operations call: its entry and answer
    listing,    \* the last list query of a driver: its method and answer
    before      \* history: whether the last invocation pushed a choice or
                \* went back, and ROFI_DATA and the result on screen when
                \* it pushed

vars == <<backend, outputs, rofi_data, chosen, args, seen, result, calls,
          sent, error, exit_code, reply, probe, listing, before>>

---------------------------------------------------------------------------
(* Bounds of the model *)

\* longest token queue an invocation may still extend
MaxQueue == 3
\* the largest value of the layout's integers: the model's stand-in for
\* i32::MAX, so that the arithmetic on rectangles overflows as i32 does
MaxCoord == 2

\* i32::MIN, i32::MAX and two's complement wrap-around at the model's width
I32Min == -MaxCoord - 1
I32Max == MaxCoord
Overflows(n) == n < I32Min \/ n > I32Max
Wrap(n) == ((n - I32Min) % (I32Max - I32Min + 1)) + I32Min

---------------------------------------------------------------------------
(* String helpers: what str::split, str::trim and Itertools::join do *)

RECURSIVE FindChar(_, _, _)
\* index of the first occurrence of character c in s at or after i, else 0
FindChar(s, c, i) ==
    IF i > Len(s) THEN 0
    ELSE IF SubSeq(s, i, i) = c THEN i
    ELSE FindChar(s, c, i + 1)

RECURSIVE Split(_, _)
\* s.split(c): the pieces between occurrences of c, empty pieces included
Split(s, c) ==
    LET i == FindChar(s, c, 1)
    IN  IF i = 0 THEN <<s>>
        ELSE <<SubSeq(s, 1, i - 1)>> \o Split(SubSeq(s, i + 1, Len(s)), c)

RECURSIVE TrimStart(_)
TrimStart(s) ==
    IF Len(s) > 0 /\ SubSeq(s, 1, 1) = " "
    THEN TrimStart(SubSeq(s, 2, Len(s))) ELSE s

RECURSIVE TrimEnd(_)
TrimEnd(s) ==
    IF Len(s) > 0 /\ SubSeq(s, Len(s), Len(s)) = " "
    THEN TrimEnd(SubSeq(s, 1, Len(s) - 1)) ELSE s

\* s.trim()
Trim(s) == TrimEnd(TrimStart(s))

RECURSIVE Join(_, _)
\* iter.join(sep)
Join(q, sep) ==
    IF q = <<>> THEN ""
    ELSE IF Len(q) = 1 THEN q[1]
    ELSE q[1] \o sep \o Join(Tail(q), sep)

---------------------------------------------------------------------------
(* Capability model *)

Backends == {"libxrandr", "xrandr_cli", "swayipc"}

\* the implementations of supported_operations: the three drivers, and the
\* newer generation of the CLI driver that offers ChangeMode
Drivers == Backends \cup {"xrandr_cli_mode"}

Relations == <<"LeftOf", "RightOf", "Below", "Above", "SameAs">>
Rotations == <<"Normal", "Left", "Right", "Inverted">>

\* backend::OutputEntry
OutputEntry(name, connected, enabled) ==
    [name |-> name, connected |-> connected, enabled |-> enabled]

\* action::Action { output, op }; the fields an operation does not carry
\* hold the defaults below
Action(output, op) ==
    [output |-> output, op |-> op, relation |-> "", output_s |-> "",
     rotation |-> "", width |-> 0, height |-> 0, rate |-> 0]

NoAction == Action("", "")

\* impl Display for Operation
OperationDisplay(op) ==
    (CASE op = "Enable" -> "Enable"
       [] op = "Disable" -> "Disable"
       [] op = "SetPrimary" -> "Make primary"
       [] op = "ChangeRes" -> "Change resolution"
       [] op = "ChangeMode" -> "Change mode"
       [] op = "ChangeRate" -> "Change rate"
       [] op = "Position" -> "Position"
       [] op = "Rotate" -> "Rotate") \o " "

\* impl Display for Relation
RelationDisplay(r) ==
    (CASE r = "LeftOf" -> "To the left of"
       [] r = "RightOf" -> "To the right of"
       [] r = "Above" -> "Above"
       [] r = "Below" -> "Below"
       [] r = "SameAs" -> "Mirroring") \o " "

\* impl FromStr for Relation: "" stands for Err(ParseError::Relation)
RelationFromStr(s) ==
    CASE s = "To the left of" -> "LeftOf"
      [] s = "To the right of" -> "RightOf"
      [] s = "Above" -> "Above"
      [] s = "Below" -> "Below"
      [] s = "Mirroring" -> "SameAs"
      [] OTHER -> ""

\* impl Display for Rotation
RotationDisplay(r) == r \o " "

\* Rotation::explain
RotationExplain(r) ==
    CASE r = "Normal" -> "Upright"
      [] r = "Left" -> "Counterclockwise"
      [] r = "Right" -> "Clockwise"
      [] r = "Inverted" -> "upside down"

\* impl FromStr for Rotation: "" stands for Err(ParseError::Rotation)
RotationFromStr(s) ==
    IF s \in {"Normal", "Left", "Right", "Inverted"} THEN s ELSE ""

---------------------------------------------------------------------------
(* Sequence helpers: what Vec::sort_by (stable), Vec::dedup_by, Iterator::find
   and VecDeque::pop_back do *)

\* index of the first element satisfying P, 0 when there is none
FindIndex(s, P(_)) ==
    IF \E i \in 1..Len(s) : P(s[i])
    THEN CHOOSE i \in 1..Len(s) : P(s[i]) /\ \A j \in 1..(i - 1) : ~P(s[j])
    ELSE 0

\* insert e after every element that is not greater (keeps the sort stable)
Insert(e, s, Greater(_, _)) ==
    LET i == FindIndex(s, LAMBDA x : Greater(x, e))
    IN  IF i = 0 THEN Append(s, e)
        ELSE SubSeq(s, 1, i - 1) \o <<e>> \o SubSeq(s, i, Len(s))

\* s.sort_by(cmp), Greater(a, b) being cmp(a, b) == Ordering::Greater
SortBy(s, Greater(_, _)) ==
    LET sorted[n \in 0..Len(s)] ==
            IF n = 0 THEN <<>> ELSE Insert(s[n], sorted[n - 1], Greater)
    IN  sorted[Len(s)]

\* s.dedup_by(|a, b| Same(a, b)): an element is dropped when it is in the
\* same bucket as the element retained before it
DedupBy(s, Same(_, _)) ==
    LET kept[n \in 0..Len(s)] ==
            IF n = 0 THEN <<>>
            ELSE IF kept[n - 1] # <<>>
                    /\ Same(s[n], kept[n - 1][Len(kept[n - 1])])
                 THEN kept[n - 1]
                 ELSE Append(kept[n - 1], s[n])
    IN  kept[Len(s)]

\* v.pop_back() on a VecDeque: nothing happens when it is empty
PopBack(q) == IF q = <<>> THEN q ELSE SubSeq(q, 1, Len(q) - 1)

\* iter.map(f).collect()
Map(s, f(_)) == [i \in 1..Len(s) |-> f(s[i])]

---------------------------------------------------------------------------
(* Backend drivers: queries *)

\* RATE_EPSILON = 0.01 Hz, in mHz
RATE_EPSILON == 10

Abs(n) == IF n < 0 THEN -n ELSE n

\* the compositor's outputs listed with connected taken from the mode field
get_outputs_connected_when_enabled(b, outs) ==
    Map(outs, LAMBDA o :
        OutputEntry(o.name,
                    IF b = "swayipc" THEN o.current # 0 ELSE o.connected,
                    o.current # 0))

\* DisplayBackend::get_outputs.  enabled is current_mode.is_some() (the CLI
\* driver: some mode line carries the '*' marker); swayipc lists connected
\* outputs only and reports connected = true for each
get_outputs(b, outs) ==
    Map(outs, LAMBDA o :
        OutputEntry(o.name,
                    IF b = "swayipc" THEN TRUE ELSE o.connected,
                    o.current # 0))

\* supported_operations of each driver: the operations offered for an
\* output entry; panic stands for unreachable!()
Ops(ops) == [panic |-> FALSE, ops |-> ops]

libxrandr_supported_operations_both(output) ==
    IF ~output.connected THEN Ops(<<"Disable", "Enable">>)
    ELSE IF ~output.enabled THEN Ops(<<"Enable">>)
    ELSE Ops(<<"Disable", "SetPrimary", "ChangeRes", "Position",
               "ChangeRate", "Rotate">>)

\* backend/libxrandr.rs
libxrandr_supported_operations(output) ==
    IF ~output.connected THEN Ops(<<"Disable">>)
    ELSE IF ~output.enabled THEN Ops(<<"Enable">>)
    ELSE Ops(<<"Disable", "SetPrimary", "ChangeRes", "Position",
               "ChangeRate", "Rotate">>)

\* dpy_backend/xrandr_cli.rs
xrandr_cli_supported_operations(output) ==
    IF ~output.connected THEN Ops(<<"Disable">>)
    ELSE IF ~output.enabled THEN Ops(<<"Enable">>)
    ELSE Ops(<<"Disable", "SetPrimary", "ChangeRes", "Position",
               "ChangeRate", "Rotate">>)

xrandr_cli_mode_supported_operations_with_enable(output) ==
    IF ~output.connected THEN Ops(<<"Disable">>)
    ELSE IF ~output.enabled THEN Ops(<<"Enable">>)
    ELSE Ops(<<"Enable", "Disable", "SetPrimary", "ChangeMode", "Position",
               "Rotate">>)

\* backend/xrandr_cli.rs, the generation with Operation::ChangeMode
xrandr_cli_mode_supported_operations(output) ==
    IF ~output.connected THEN Ops(<<"Disable">>)
    ELSE IF ~output.enabled THEN Ops(<<"Enable">>)
    ELSE Ops(<<"Disable", "SetPrimary", "ChangeMode", "Position", "Rotate">>)

sway_supported_operations_toggle(output) ==
    IF ~output.connected THEN [panic |-> TRUE, ops |-> <<>>]
    ELSE IF ~output.enabled THEN Ops(<<"Enable", "Disable">>)
    ELSE Ops(<<"Disable", "ChangeRes", "Position", "ChangeRate", "Rotate">>)

\* backend/sway.rs
sway_supported_operations(output) ==
    IF ~output.connected THEN [panic |-> TRUE, ops |-> <<>>]
    ELSE IF ~output.enabled THEN Ops(<<"Enable">>)
    ELSE Ops(<<"Disable", "ChangeRes", "Position", "ChangeRate", "Rotate">>)

\* dyn DisplayBackend: the call goes to the driver in use
supported_operations(d, output) ==
    CASE d = "swayipc" -> sway_supported_operations(output)
      [] d = "xrandr_cli_mode" -> xrandr_cli_mode_supported_operations(output)
      [] d = "xrandr_cli" -> xrandr_cli_supported_operations(output)
      [] d = "libxrandr" -> libxrandr_supported_operations(output)

supported_relations_all(b) ==
    <<"LeftOf", "RightOf", "Below", "Above", "SameAs">>

\* DisplayBackend::supported_relations
supported_relations(b) ==
    IF b = "swayipc" THEN <<"LeftOf", "RightOf", "Below", "Above">>
    ELSE <<"LeftOf", "RightOf", "Below", "Above", "SameAs">>

ResolutionEntry(m, current) ==
    [width |-> m.width, height |-> m.height, current |-> current]

SameResolution(a, b) == a.width = b.width /\ a.height = b.height

\* DisplayBackend::get_resolutions of the three drivers; err is "" on Ok
get_resolutions(b, outs, output_name) ==
    LET i == FindIndex(outs, LAMBDA o : o.name = output_name)
        o == outs[i]
        cur == o.modes[o.current]
    IN  IF i = 0 THEN [err |-> "GetResolutions::NoOutput", list |-> <<>>]
        ELSE IF b = "xrandr_cli" THEN
            [err |-> "",
             list |-> DedupBy(
                 [k \in 1..Len(o.modes) |->
                     ResolutionEntry(o.modes[k], k = o.current)],
                 SameResolution)]
        ELSE IF o.current = 0
        THEN [err |-> "GetResolutions::GetCurrent", list |-> <<>>]
        ELSE LET entries == Map(o.modes, LAMBDA m :
                     ResolutionEntry(m, SameResolution(m, cur)))
             IN  IF b = "swayipc" THEN
                     [err |-> "",
                      list |-> DedupBy(
                          SortBy(entries, LAMBDA x, y :
                              \/ x.width * x.height > y.width * y.height
                              \/ /\ x.width * x.height = y.width * y.height
                                 /\ x.width > y.width),
                          SameResolution)]
                 ELSE
                     [err |-> "",
                      list |-> DedupBy(
                          SortBy(entries, LAMBDA x, y :
                              y.width * y.height > x.width * x.height),
                          LAMBDA x, y : x = y)]

RateEntry(val, current) == [val |-> val, current |-> current]

\* DisplayBackend::get_rates of the three drivers; err is "" on Ok
get_rates(b, outs, output_name) ==
    LET i == FindIndex(outs, LAMBDA o : o.name = output_name)
        o == outs[i]
        cur == o.modes[o.current]
        same == SelectSeq(o.modes, LAMBDA m : SameResolution(m, cur))
    IN  IF i = 0 THEN [err |-> "GetRates::NoOutput", list |-> <<>>]
        ELSE IF o.current = 0
        THEN [err |-> "GetRates::GetCurrent", list |-> <<>>]
        ELSE IF b = "swayipc" THEN
            [err |-> "",
             list |-> DedupBy(
                 Map(same, LAMBDA m :
                     RateEntry(m.refresh, m.refresh = cur.refresh)),
                 LAMBDA x, y : Abs(x.val - y.val) < RATE_EPSILON)]
        ELSE
            [err |-> "",
             list |-> Map(same, LAMBDA m :
                 RateEntry(m.refresh,
                           Abs(m.refresh - cur.refresh) < RATE_EPSILON))]

ModeEntry(m, current) ==
    [width |-> m.width, height |-> m.height, rate |-> m.refresh,
     current |-> current]

\* impl Ord for Mode: Mode::cmp(a, b) == Ordering::Greater
ModeGreater(a, b) ==
    \/ a.width * a.height > b.width * b.height
    \/ /\ a.width * a.height = b.width * b.height
       /\ \/ a.width > b.width
          \/ a.width = b.width /\ a.rate > b.rate

\* DisplayBackend::get_modes of backend/xrandr_cli.rs; err is "" on Ok
get_modes(outs, output_name) ==
    LET i == FindIndex(outs, LAMBDA o : o.name = output_name)
        o == outs[i]
    IN  IF i = 0 THEN [err |-> "GetResolutions::NoOutput", list |-> <<>>]
        ELSE [err |-> "",
              list |-> DedupBy(
                  SortBy([k \in 1..Len(o.modes) |->
                             ModeEntry(o.modes[k], k = o.current)],
                         LAMBDA x, y : ModeGreater(y, x)),
                  LAMBDA x, y : x = y)]

---------------------------------------------------------------------------
(* Numbers in text *)

DigitChars == <<"0", "1", "2", "3", "4", "5", "6", "7", "8", "9">>

IsDigit(c) == \E d \in 1..10 : DigitChars[d] = c

DigitVal(c) == (CHOOSE d \in 1..10 : DigitChars[d] = c) - 1

AllDigits(s) == Len(s) > 0 /\ \A i \in 1..Len(s) : IsDigit(SubSeq(s, i, i))

RECURSIVE DigitsVal(_)
DigitsVal(s) ==
    IF s = "" THEN 0
    ELSE 10 * DigitsVal(SubSeq(s, 1, Len(s) - 1))
         + DigitVal(SubSeq(s, Len(s), Len(s)))

RECURSIVE NatToStr(_)
NatToStr(n) ==
    IF n < 10 THEN DigitChars[n + 1]
    ELSE NatToStr(n \div 10) \o DigitChars[(n % 10) + 1]

\* str::parse::<u32>(): an optional '+', then decimal digits; -1 stands for
\* Err.  Exact for up to nine digits; longer digit strings (values from 10^9
\* up to u32::MAX parse in the program) are outside the model's inputs.
ParseU32(s) ==
    LET body == IF Len(s) > 0 /\ SubSeq(s, 1, 1) = "+"
                THEN SubSeq(s, 2, Len(s)) ELSE s
    IN  IF AllDigits(body) /\ Len(body) <= 9 THEN DigitsVal(body) ELSE -1

\* f64::from_str on decimal text "ddd", "ddd.ddd", "ddd." or ".ddd", the
\* value in mHz (digits after the third decimal are dropped); -1 stands for
\* Err.  Text in other notations (sign, exponent, inf, nan) is outside the
\* model's inputs.
ParseF64(s) ==
    LET parts == Split(s, ".")
        int == parts[1]
        frac == IF Len(parts) = 2 THEN parts[2] ELSE ""
        Digits(x) == x = "" \/ AllDigits(x)
    IN  IF /\ Len(parts) <= 2 /\ Digits(int) /\ Digits(frac)
           /\ (int # "" \/ frac # "")
        THEN DigitsVal(int) * 1000 + DigitsVal(SubSeq(frac \o "000", 1, 3))
        ELSE -1

\* format!("{:.2}", rate): two decimals, rounded to nearest
FormatRate2(mhz) ==
    LET h == (mhz + 5) \div 10
        f == h % 100
    IN  NatToStr(h \div 100) \o "." \o DigitChars[(f \div 10) + 1]
        \o DigitChars[(f % 10) + 1]

\* impl FromStr for Resolution; width = -1 stands for Err(ParseError::Resolution)
ResolutionFromStr(s) ==
    LET data == Split(s, "x")
    IN  IF Len(data) # 2 \/ ParseU32(data[1]) < 0 \/ ParseU32(data[2]) < 0
        THEN [width |-> -1, height |-> -1]
        ELSE [width |-> ParseU32(data[1]), height |-> ParseU32(data[2])]

---------------------------------------------------------------------------
(* rofi lists: what the program prints as the next menu *)

ListItem(text, comments, non_selectable) ==
    [text |-> text, comments |-> comments, non_selectable |-> non_selectable]

\* ListItem::rofi_print: the row the user sees and rofi passes back as argv[1]
Row(item) ==
    item.text \o
    (IF item.comments = <<>> THEN ""
     ELSE " <span style='italic' size='small'>("
          \o Join(item.comments, ", ") \o ")</span>")

\* impl From<&OutputEntry> for ListItem
OutputItem(output) ==
    ListItem(output.name,
             IF ~output.connected THEN <<"disconnected">>
             ELSE IF ~output.enabled THEN <<"disabled">> ELSE <<>>,
             ~output.connected)

\* ParseResult: Done(action) | Next(list); Err and Panic are the two ways
\* Action::parse ends without a ParseResult
NoResult ==
    [kind |-> "None", action |-> NoAction, prompt |-> "", message |-> "",
     list |-> <<>>, err |-> "", detail |-> <<>>]

Done(action) == [NoResult EXCEPT !.kind = "Done", !.action = action]

NextList(prompt, message, list) ==
    [NoResult EXCEPT !.kind = "Next", !.prompt = prompt,
                     !.message = message, !.list = list]

Err(err, detail) == [NoResult EXCEPT !.kind = "Err", !.err = err,
                                     !.detail = detail]

Panic(what) == [NoResult EXCEPT !.kind = "Panic", !.err = what]

ConnectedFirst(a, b) == ~a.connected /\ b.connected

\* ParseResult::output_list
output_list(b, outs) ==
    NextList("Select output", "",
             Map(SortBy(get_outputs(b, outs), ConnectedFirst), OutputItem))

\* ParseResult::relation_list
relation_list(b) ==
    NextList("Select position", "",
             Map(supported_relations(b), LAMBDA r :
                 ListItem(RelationDisplay(r), <<>>, FALSE)))

\* ParseResult::rotation_list
rotation_list ==
    NextList("Select rotation", "",
             Map(Rotations, LAMBDA r :
                 ListItem(RotationDisplay(r), <<RotationExplain(r)>>, FALSE)))

\* ParseResult::confirm_disable_list
confirm_disable_list ==
    NextList("Disable last active output?", "",
             <<ListItem("Yes", <<>>, FALSE),
               ListItem("No", <<"Quit to cancel">>, TRUE)>>)

\* ParseResult::rate_list
rate_list(b, outs, output) ==
    LET rates == get_rates(b, outs, output)
    IN  IF rates.err # "" THEN Err(rates.err, <<output>>)
        ELSE NextList("Select rate", "",
                 Map(SortBy(rates.list, LAMBDA x, y : y.val > x.val),
                     LAMBDA e : ListItem(FormatRate2(e.val) \o " Hz",
                                    IF e.current THEN <<"Current">> ELSE <<>>,
                                    FALSE)))

\* ParseResult::resolution_list
resolution_list(b, outs, output) ==
    LET resolutions == get_resolutions(b, outs, output)
    IN  IF resolutions.err # "" THEN Err(resolutions.err, <<output>>)
        ELSE NextList("Select resolution ", output,
                 Map(SortBy(resolutions.list, LAMBDA x, y :
                         y.width * y.height > x.width * x.height),
                     LAMBDA e : ListItem(
                         NatToStr(e.width) \o "x" \o NatToStr(e.height),
                         IF e.current THEN <<"Current">> ELSE <<>>,
                         FALSE)))

\* ParseResult::relatives_list
relatives_list(b, outs, output, relation) ==
    LET others == SortBy(SelectSeq(get_outputs(b, outs),
                                   LAMBDA o : o.name # output),
                         ConnectedFirst)
    IN  NextList("Select output",
                 output \o " (" \o RelationDisplay(relation) \o "...)",
                 Map(others, LAMBDA o :
                     IF ~o.enabled
                     THEN [OutputItem(o) EXCEPT !.non_selectable = TRUE]
                     ELSE OutputItem(o)))

\* the menu of every operation, whatever the driver supports
operation_list_unfiltered(b, output) ==
    NextList("Select operation", output.name,
             Map(<<"Enable", "Disable", "SetPrimary", "ChangeRes",
                   "Position", "ChangeRate", "Rotate">>, LAMBDA op :
                 ListItem(OperationDisplay(op), <<>>, FALSE)))

\* ParseResult::operation_list
operation_list(b, output) ==
    LET supported_ops == supported_operations(b, output)
    IN  IF supported_ops.panic
        THEN Panic("unreachable: SwayIPC does not list disconnected outputs")
        ELSE NextList("Select operation", output.name,
                 Map(supported_ops.ops, LAMBDA op :
                     ListItem(OperationDisplay(op), <<>>, FALSE)))

---------------------------------------------------------------------------
(* Incremental action parser *)

\* ParseResult::disable, ::enable, ::primary, ::resolution, ::rate, ::rotate,
\* ::position
ParseResult_disable(output) == Done(Action(output, "Disable"))
ParseResult_enable(output) == Done(Action(output, "Enable"))
ParseResult_primary(output) == Done(Action(output, "SetPrimary"))
ParseResult_resolution(output, m) ==
    Done([Action(output, "ChangeRes") EXCEPT !.width = m.width,
                                             !.height = m.height])
ParseResult_rate(output, rate) ==
    Done([Action(output, "ChangeRate") EXCEPT !.rate = rate])
ParseResult_rotate(output, r) ==
    Done([Action(output, "Rotate") EXCEPT !.rotation = r])
ParseResult_position(output, rel, o2) ==
    Done([Action(output, "Position") EXCEPT !.relation = rel,
                                            !.output_s = o2])

\* the last active output disabled without the confirmation being asked
confirm_last_display_disable_unasked(entries, output, ctx_args) ==
    IF ctx_args # <<>> THEN
        IF Head(ctx_args) = "Yes" THEN ParseResult_disable(output)
        ELSE Err("AppError::Cancel", <<>>)
    ELSE IF ~\E i \in 1..Len(entries) :
                entries[i].name # output /\ entries[i].enabled
    THEN ParseResult_disable(output)
    ELSE ParseResult_enable(output)

\* the confirmation answered like the fall-through at the end
confirm_last_display_disable_yes_enables(entries, output, ctx_args) ==
    IF ctx_args # <<>> THEN
        IF Head(ctx_args) = "Yes" THEN ParseResult_enable(output)
        ELSE Err("AppError::Cancel", <<>>)
    ELSE IF ~\E i \in 1..Len(entries) :
                entries[i].name # output /\ entries[i].enabled
    THEN confirm_disable_list
    ELSE ParseResult_enable(output)

\* confirm_last_display_disable(outputs, ctx)
confirm_last_display_disable(entries, output, ctx_args) ==
    IF ctx_args # <<>> THEN
        IF Head(ctx_args) = "Yes" THEN ParseResult_disable(output)
        ELSE Err("AppError::Cancel", <<>>)
    ELSE IF ~\E i \in 1..Len(entries) :
                entries[i].name # output /\ entries[i].enabled
    THEN confirm_disable_list
    ELSE ParseResult_enable(output)

\* Resolution::parse
Resolution_parse(b, outs, output, ctx_args) ==
    IF ctx_args = <<>> THEN resolution_list(b, outs, output)
    ELSE LET mode == ResolutionFromStr(Head(ctx_args))
         IN  IF mode.width < 0
             THEN Err("ParseError::Resolution", <<Head(ctx_args)>>)
             ELSE ParseResult_resolution(output, mode)

\* Rotation::parse
Rotation_parse(output, ctx_args) ==
    IF ctx_args = <<>> THEN rotation_list
    ELSE LET rotation == RotationFromStr(Head(ctx_args))
         IN  IF rotation = ""
             THEN Err("ParseError::Rotation", <<Head(ctx_args)>>)
             ELSE ParseResult_rotate(output, rotation)

\* action::rate::parse; the slice rate_s[..len - 3] panics on a token shorter
\* than the " Hz" suffix
rate_parse(b, outs, output, ctx_args) ==
    IF ctx_args = <<>> THEN rate_list(b, outs, output)
    ELSE LET rate_s == Head(ctx_args)
             rate == ParseF64(SubSeq(rate_s, 1, Len(rate_s) - 3))
         IN  IF Len(rate_s) < 3 THEN Panic("rate_s[..rate_s.len() - 3]")
             ELSE IF rate < 0 THEN Err("ParseError::Rate", <<rate_s>>)
             ELSE ParseResult_rate(output, rate)

\* impl FromStr for Mode (action/mode.rs); err is "" on Ok, panic stands for
\* the slice rate_s[..len - 2] of a rate text shorter than two bytes.  Only
\* the first two pieces of a split are looked at.
ModeFromStr(s) ==
    LET rate_split == Split(s, "@")
        rate_s == rate_split[2]
        rate == ParseF64(SubSeq(rate_s, 1, Len(rate_s) - 2))
        res_split == Split(rate_split[1], "x")
        width == ParseU32(res_split[1])
        height == ParseU32(res_split[2])
        answer(err, panic, w, h, r) ==
            [err |-> err, panic |-> panic, width |-> w, height |-> h,
             rate |-> r]
    IN  IF Len(rate_split) < 2
        THEN answer("ParseError::Resolution", FALSE, 0, 0, 0)
        ELSE IF Len(rate_s) < 2 THEN answer("", TRUE, 0, 0, 0)
        ELSE IF rate < 0 THEN answer("ParseError::Rate", FALSE, 0, 0, 0)
        ELSE IF width < 0 \/ Len(res_split) < 2
        THEN answer("ParseError::Resolution", FALSE, 0, 0, 0)
        ELSE IF height < 0
        THEN answer("ParseError::Resolution", FALSE, 0, 0, 0)
        ELSE answer("", FALSE, width, height, rate)

\* Mode::parse with a value token in the context
Mode_parse(output, ctx_args) ==
    LET mode == ModeFromStr(Head(ctx_args))
    IN  IF mode.panic THEN Panic("rate_s[..rate_s.len() - 2]")
        ELSE IF mode.err # ""
        THEN Err(mode.err, <<IF mode.err = "ParseError::Rate"
                              THEN Split(Head(ctx_args), "@")[2]
                              ELSE Head(ctx_args)>>)
        ELSE Done([Action(output, "ChangeMode")
                     EXCEPT !.width = mode.width, !.height = mode.height,
                            !.rate = mode.rate])

\* the output and the target taken in the other order
Position_parse_swapped(b, outs, output, ctx_args) ==
    IF ctx_args = <<>> THEN relation_list(b)
    ELSE LET relation == RelationFromStr(Head(ctx_args))
             rest == Tail(ctx_args)
         IN  IF relation = ""
             THEN Err("ParseError::Relation", <<Head(ctx_args)>>)
             ELSE IF rest = <<>>
             THEN relatives_list(b, outs, output, relation)
             ELSE ParseResult_position(Head(rest), relation, output)

\* a target is asked for again however many tokens follow the relation
Position_parse_asks_again(b, outs, output, ctx_args) ==
    IF ctx_args = <<>> THEN relation_list(b)
    ELSE LET relation == RelationFromStr(Head(ctx_args))
         IN  IF relation = ""
             THEN Err("ParseError::Relation", <<Head(ctx_args)>>)
             ELSE relatives_list(b, outs, output, relation)

\* Position::parse
Position_parse(b, outs, output, ctx_args) ==
    IF ctx_args = <<>> THEN relation_list(b)
    ELSE LET relation == RelationFromStr(Head(ctx_args))
             rest == Tail(ctx_args)
         IN  IF relation = ""
             THEN Err("ParseError::Relation", <<Head(ctx_args)>>)
             ELSE IF rest = <<>>
             THEN relatives_list(b, outs, output, relation)
             ELSE ParseResult_position(output, relation, Head(rest))

\* an unknown operation sends the user back to the operation menu
Action_parse_lenient(b, outs, queue) ==
    LET entries == get_outputs(b, outs)
        name == Head(queue)
        i == FindIndex(entries, LAMBDA o : o.name = name)
        output == entries[i]
        op_str == queue[2]
        ctx_args == SubSeq(queue, 3, Len(queue))
    IN  IF queue = <<>> THEN output_list(b, outs)
        ELSE IF i = 0 THEN Err("AppError::NoOuput", <<name>>)
        ELSE IF Len(queue) = 1 THEN operation_list(b, output)
        ELSE CASE op_str = "Enable" -> ParseResult_enable(output.name)
               [] op_str = "Disable" ->
                    confirm_last_display_disable(entries, output.name,
                                                 ctx_args)
               [] op_str = "Make primary" -> ParseResult_primary(output.name)
               [] op_str = "Change resolution" ->
                    Resolution_parse(b, outs, output.name, ctx_args)
               [] op_str = "Rotate" -> Rotation_parse(output.name, ctx_args)
               [] op_str = "Change rate" ->
                    rate_parse(b, outs, output.name, ctx_args)
               [] op_str = "Position" ->
                    Position_parse(b, outs, output.name, ctx_args)
               [] OTHER -> operation_list(b, output)

\* Action::parse(backend, args)
Action_parse(b, outs, queue) ==
    LET entries == get_outputs(b, outs)
        name == Head(queue)
        i == FindIndex(entries, LAMBDA o : o.name = name)
        output == entries[i]
        op_str == queue[2]
        ctx_args == SubSeq(queue, 3, Len(queue))
    IN  IF queue = <<>> THEN output_list(b, outs)
        ELSE IF i = 0 THEN Err("AppError::NoOuput", <<name>>)
        ELSE IF Len(queue) = 1 THEN operation_list(b, output)
        ELSE CASE op_str = "Enable" -> ParseResult_enable(output.name)
               [] op_str = "Disable" ->
                    confirm_last_display_disable(entries, output.name,
                                                 ctx_args)
               [] op_str = "Make primary" -> ParseResult_primary(output.name)
               [] op_str = "Change resolution" ->
                    Resolution_parse(b, outs, output.name, ctx_args)
               [] op_str = "Rotate" -> Rotation_parse(output.name, ctx_args)
               [] op_str = "Change rate" ->
                    rate_parse(b, outs, output.name, ctx_args)
               [] op_str = "Position" ->
                    Position_parse(b, outs, output.name, ctx_args)
               [] OTHER -> Err("ParseError::Operation",
                               <<op_str>> \o ctx_args)

---------------------------------------------------------------------------
(* main.rs: the token queue round-tripped through rofi *)

\* No argv[1]: rofi starts the script without a choice
NoArg == <<>>

\* the choice pushed as rofi hands it over, cut at the markup but not trimmed
get_args_untrimmed(data, argv) ==
    LET stored == SelectSeq(Split(data, ":"), LAMBDA t : t # "")
        input == Head(Split(argv[1], "<"))
    IN  IF argv = NoArg THEN stored
        ELSE IF input = "Back" THEN PopBack(stored)
        ELSE Append(stored, input)

\* get_args(): the queue parsed from ROFI_DATA, then the newest choice
\* pushed, or the last one popped on "Back"
get_args(data, argv) ==
    LET stored == SelectSeq(Split(data, ":"), LAMBDA t : t # "")
        input == Trim(Head(Split(argv[1], "<")))
    IN  IF argv = NoArg THEN stored
        ELSE IF input = "Back" THEN PopBack(stored)
        ELSE Append(stored, input)

\* the "\0data\x1f..." line get_args() prints: rofi stores it as ROFI_DATA
data_line(queue) == IF queue = <<>> THEN "" ELSE Join(queue, ":")

---------------------------------------------------------------------------
(* Backend drivers: state-changing methods.

   env is what the display server answers to the command: env.ok says
   whether the call/transport/subprocess succeeded, env.failed holds the
   indices of the sub-commands of a batched compositor command that the
   compositor reports as failed (and does not apply).  The outcome of a
   method is the error it returns ("" for Ok), the commands it sent, and the
   display server's outputs afterwards. *)

Outcome(err, detail, cmds, outs) ==
    [err |-> err, detail |-> detail, panic |-> FALSE, sent |-> cmds,
     outs |-> outs]

PanicOutcome(what, outs) ==
    [err |-> what, detail |-> <<>>, panic |-> TRUE, sent |-> <<>>,
     outs |-> outs]

IntToStr(n) == IF n < 0 THEN "-" \o NatToStr(-n) ELSE NatToStr(n)

RECURSIVE StripZeros(_)
StripZeros(s) ==
    IF Len(s) > 0 /\ SubSeq(s, Len(s), Len(s)) = "0"
    THEN StripZeros(SubSeq(s, 1, Len(s) - 1)) ELSE s

\* format!("{}", f64) of a rate held in mHz: "60", "59.94", "59.996"
FormatF64(mhz) ==
    LET f == mhz % 1000
        frac == StripZeros(DigitChars[(f \div 100) + 1]
                           \o DigitChars[((f \div 10) % 10) + 1]
                           \o DigitChars[(f % 10) + 1])
    IN  NatToStr(mhz \div 1000) \o (IF frac = "" THEN "" ELSE "." \o frac)

OutputIndex(outs, name) == FindIndex(outs, LAMBDA o : o.name = name)

\* the display server switches an output to one of its modes (0: off)
WithCurrent(outs, i, k) == [outs EXCEPT ![i].current = k]

\* only the result of the last sub-command is looked at
run_sway_cmd_last(n, env) == env.ok /\ n \notin env.failed

\* run_sway_cmd(conn, cmd, err_f): Ok only if the transport call succeeded
\* and every sub-command result is a success
run_sway_cmd_ok(n, env) == env.ok /\ \A k \in 1..n : k \notin env.failed

\* a sub-command takes effect iff the compositor reports it as a success
Applied(k, env) == env.ok /\ k \notin env.failed

Min(S) == CHOOSE m \in S : \A n \in S : m <= n

\* normalize_all_outputs: shifts every rectangle so that the top left of the
\* bounding box is at (0, 0); the subtractions are i32 subtractions
normalize_all_outputs(outs) ==
    LET left == Min({outs[i].rect.x : i \in 1..Len(outs)})
        top == Min({outs[i].rect.y : i \in 1..Len(outs)})
    IN  [i \in 1..Len(outs) |->
            [outs[i] EXCEPT !.rect.x = Wrap(@ - left),
                            !.rect.y = Wrap(@ - top)]]

\* some subtraction of normalize_all_outputs leaves the range of i32
normalize_overflows(outs) ==
    LET left == Min({outs[i].rect.x : i \in 1..Len(outs)})
        top == Min({outs[i].rect.y : i \in 1..Len(outs)})
    IN  \E i \in 1..Len(outs) :
            Overflows(outs[i].rect.x - left) \/ Overflows(outs[i].rect.y - top)

\* the (x, y) the moved output gets in sway's Backend::set_position, before
\* it is cut to the width of i32
RelativeOrigin(relation, w, h, rel) ==
    CASE relation = "LeftOf" -> [x |-> rel.x - w, y |-> rel.y]
      [] relation = "RightOf" -> [x |-> rel.x + rel.width, y |-> rel.y]
      [] relation = "Above" -> [x |-> rel.x, y |-> rel.y - h]
      [] relation = "Below" -> [x |-> rel.x, y |-> rel.y + rel.height]
      [] relation = "SameAs" -> [x |-> rel.x, y |-> rel.y]

\* a command for the moved output only
sway_set_position_moved_only(outs, output_name, pos, env) ==
    LET i == OutputIndex(outs, output_name)
        j == OutputIndex(outs, pos.output_s)
        xy == RelativeOrigin(pos.relation, outs[i].rect.width,
                             outs[i].rect.height, outs[j].rect)
        new_outputs == [k \in 1..Len(outs) |->
            IF outs[k].name = outs[i].name
            THEN [outs[i] EXCEPT !.rect.x = Wrap(xy.x), !.rect.y = Wrap(xy.y)]
            ELSE outs[k]]
        normalized_outputs == normalize_all_outputs(new_outputs)
        changed == SelectSeq([k \in 1..Len(outs) |-> k], LAMBDA k :
                       k = i /\ outs[k].rect # normalized_outputs[k].rect)
        cmds == Map(changed, LAMBDA k :
                    "output " \o normalized_outputs[k].name \o " pos "
                    \o IntToStr(normalized_outputs[k].rect.x) \o " "
                    \o IntToStr(normalized_outputs[k].rect.y))
        after == [k \in 1..Len(outs) |->
            IF \E c \in 1..Len(changed) : changed[c] = k /\ Applied(c, env)
            THEN normalized_outputs[k] ELSE outs[k]]
    IN  IF i = 0 THEN Outcome("Enable::NoOutput", <<output_name>>, <<>>, outs)
        ELSE IF j = 0
        THEN Outcome("Enable::NoOutput", <<pos.output_s>>, <<>>, outs)
        ELSE IF env.overflow_checks
                /\ (Overflows(xy.x) \/ Overflows(xy.y)
                    \/ normalize_overflows(new_outputs))
        THEN PanicOutcome("attempt to add or subtract with overflow", outs)
        ELSE IF cmds = <<>> THEN Outcome("", <<>>, <<>>, outs)
        ELSE Outcome(IF run_sway_cmd_ok(Len(cmds), env) THEN ""
                     ELSE "SetPosition::BackendCall",
                     <<>>, <<Join(cmds, ";")>>, after)

\* sway::Backend::set_position.  An i32 overflow panics in a build with
\* overflow checks and wraps around in one without
sway_set_position(outs, output_name, pos, env) ==
    LET i == OutputIndex(outs, output_name)
        j == OutputIndex(outs, pos.output_s)
        xy == RelativeOrigin(pos.relation, outs[i].rect.width,
                             outs[i].rect.height, outs[j].rect)
        new_outputs == [k \in 1..Len(outs) |->
            IF outs[k].name = outs[i].name
            THEN [outs[i] EXCEPT !.rect.x = Wrap(xy.x), !.rect.y = Wrap(xy.y)]
            ELSE outs[k]]
        normalized_outputs == normalize_all_outputs(new_outputs)
        changed == SelectSeq([k \in 1..Len(outs) |-> k], LAMBDA k :
                       outs[k].rect # normalized_outputs[k].rect)
        cmds == Map(changed, LAMBDA k :
                    "output " \o normalized_outputs[k].name \o " pos "
                    \o IntToStr(normalized_outputs[k].rect.x) \o " "
                    \o IntToStr(normalized_outputs[k].rect.y))
        after == [k \in 1..Len(outs) |->
            IF \E c \in 1..Len(changed) : changed[c] = k /\ Applied(c, env)
            THEN normalized_outputs[k] ELSE outs[k]]
    IN  IF i = 0 THEN Outcome("Enable::NoOutput", <<output_name>>, <<>>, outs)
        ELSE IF j = 0
        THEN Outcome("Enable::NoOutput", <<pos.output_s>>, <<>>, outs)
        ELSE IF env.overflow_checks
                /\ (Overflows(xy.x) \/ Overflows(xy.y)
                    \/ normalize_overflows(new_outputs))
        THEN PanicOutcome("attempt to add or subtract with overflow", outs)
        ELSE IF cmds = <<>> THEN Outcome("", <<>>, <<>>, outs)
        ELSE Outcome(IF run_sway_cmd_ok(Len(cmds), env) THEN ""
                     ELSE "SetPosition::BackendCall",
                     <<>>, <<Join(cmds, ";")>>, after)

\* first mode of an output satisfying P, 0 when there is none
ModeIndex(o, P(_)) == FindIndex(o.modes, P)

\* what the display server does on a successful enable: an output that is
\* off gets its preferred (first) mode
Enabled(outs, i) ==
    WithCurrent(outs, i, IF outs[i].current = 0 THEN 1 ELSE outs[i].current)

\* a single command to the display server: the native call, the xrandr
\* subprocess (rejected when the output is unknown), or one compositor
\* command
SingleCommand(b, env, known) ==
    CASE b = "swayipc" -> run_sway_cmd_ok(1, env)
      [] b = "xrandr_cli" -> env.ok /\ known
      [] OTHER -> env.ok

\* DisplayBackend::enable
backend_enable(b, outs, output_name, env) ==
    LET i == OutputIndex(outs, output_name)
        cmd == CASE b = "swayipc" -> "output " \o output_name \o " enable"
                  [] b = "xrandr_cli" ->
                       "xrandr --output " \o output_name \o " --auto"
                  [] OTHER -> "XHandle::enable " \o output_name
    IN  IF b # "xrandr_cli" /\ i = 0
        THEN Outcome("Enable::NoOutput", <<output_name>>, <<>>, outs)
        ELSE IF SingleCommand(b, env, i # 0)
        THEN Outcome("", <<>>, <<cmd>>, Enabled(outs, i))
        ELSE Outcome("Enable::BackendCall", <<>>, <<cmd>>, outs)

\* DisplayBackend::disable
backend_disable(b, outs, output_name, env) ==
    LET i == OutputIndex(outs, output_name)
        cmd == CASE b = "swayipc" -> "output " \o output_name \o " disable"
                  [] b = "xrandr_cli" ->
                       "xrandr --output " \o output_name \o " --off"
                  [] OTHER -> "XHandle::disable " \o output_name
    IN  IF b # "xrandr_cli" /\ i = 0
        THEN Outcome("Disable::NoOutput", <<output_name>>, <<>>, outs)
        ELSE IF SingleCommand(b, env, i # 0)
        THEN Outcome("", <<>>, <<cmd>>, WithCurrent(outs, i, 0))
        ELSE Outcome("Disable::BackendCall", <<>>, <<cmd>>, outs)

\* DisplayBackend::set_primary; unimplemented!() in the sway driver, and the
\* native call has no result to check
backend_set_primary(b, outs, output_name, env) ==
    LET i == OutputIndex(outs, output_name)
    IN  CASE b = "swayipc" ->
               PanicOutcome("unimplemented: Not supported in swayipc", outs)
          [] b = "xrandr_cli" ->
               Outcome(IF env.ok /\ i # 0 THEN ""
                       ELSE "SetPrimary::BackendCall", <<>>,
                       <<"xrandr --output " \o output_name \o " --primary">>,
                       outs)
          [] OTHER ->
               IF i = 0
               THEN Outcome("SetPrimary::NoOutput", <<output_name>>, <<>>,
                            outs)
               ELSE Outcome("", <<>>,
                            <<"XHandle::set_primary " \o output_name>>, outs)

\* Rotation -> the backend's own vocabulary
RotationAngle(r) ==
    CASE r = "Normal" -> "0" [] r = "Left" -> "90"
      [] r = "Inverted" -> "180" [] r = "Right" -> "270"

RotationXcl(r) ==
    CASE r = "Normal" -> "normal" [] r = "Left" -> "left"
      [] r = "Right" -> "right" [] r = "Inverted" -> "inverted"

\* DisplayBackend::set_rotation
backend_set_rotation(b, outs, output_name, rotation, env) ==
    LET i == OutputIndex(outs, output_name)
        cmd == CASE b = "swayipc" ->
                       "output " \o output_name \o " transform "
                       \o RotationAngle(rotation)
                  [] b = "xrandr_cli" ->
                       "xrandr --output " \o output_name \o " --rotate "
                       \o RotationXcl(rotation)
                  [] OTHER ->
                       "XHandle::set_rotation " \o output_name \o " "
                       \o rotation
    IN  IF b # "xrandr_cli" /\ i = 0
        THEN Outcome(IF b = "swayipc" THEN "Enable::NoOutput"
                     ELSE "SetRotation::NoOutput",
                     <<output_name>>, <<>>, outs)
        ELSE Outcome(IF SingleCommand(b, env, i # 0) THEN ""
                     ELSE "SetRotation::BackendCall", <<>>, <<cmd>>, outs)

ModeStr(m) ==
    NatToStr(m.width) \o "x" \o NatToStr(m.height) \o "@"
    \o FormatF64(m.refresh) \o "Hz"

\* DisplayBackend::set_resolution
backend_set_resolution(b, outs, output_name, res, env) ==
    LET i == OutputIndex(outs, output_name)
        t == ModeIndex(outs[i], LAMBDA m : SameResolution(m, res))
        cmd == CASE b = "swayipc" ->
                       "output " \o output_name \o " mode "
                       \o ModeStr(outs[i].modes[t])
                  [] OTHER ->
                       "XHandle::set_mode " \o output_name \o " "
                       \o ModeStr(outs[i].modes[t])
    IN  IF b = "xrandr_cli" THEN
            IF env.ok /\ i # 0 /\ t # 0
            THEN Outcome("", <<>>,
                     <<"xrandr --output " \o output_name \o " --mode "
                       \o NatToStr(res.width) \o "x" \o NatToStr(res.height)>>,
                     WithCurrent(outs, i, t))
            ELSE Outcome("SetResolution::BackendCall", <<>>,
                     <<"xrandr --output " \o output_name \o " --mode "
                       \o NatToStr(res.width) \o "x" \o NatToStr(res.height)>>,
                     outs)
        ELSE IF i = 0
        THEN Outcome("SetResolution::NoOutput", <<output_name>>, <<>>, outs)
        ELSE IF t = 0
        THEN Outcome("SetResolution::NoMode", <<>>, <<>>, outs)
        ELSE IF SingleCommand(b, env, TRUE)
        THEN Outcome("", <<>>, <<cmd>>, WithCurrent(outs, i, t))
        ELSE Outcome(IF b = "libxrandr" THEN "GetResolutions::BackendCall"
                     ELSE "SetResolution::BackendCall", <<>>, <<cmd>>, outs)

\* the mode xrandr --mode WxH --rate R picks: the one of that resolution
\* whose rate is nearest to R
NearestRate(o, cur, rate) ==
    LET same == {k \in 1..Len(o.modes) : SameResolution(o.modes[k], cur)}
        best == {k \in same : \A l \in same :
                    Abs(o.modes[k].refresh - rate)
                        <= Abs(o.modes[l].refresh - rate)}
    IN  Min(best)

\* the target mode matched on the rate alone, whatever its resolution
backend_set_rate_any_resolution(b, outs, output_name, rate, env) ==
    LET i == OutputIndex(outs, output_name)
        cur == outs[i].modes[outs[i].current]
        t == ModeIndex(outs[i], LAMBDA m :
                 Abs(m.refresh - rate) < RATE_EPSILON)
        cmd == CASE b = "swayipc" ->
                       "output " \o output_name \o " mode "
                       \o ModeStr(outs[i].modes[t])
                  [] OTHER ->
                       "XHandle::set_mode " \o output_name \o " "
                       \o ModeStr(outs[i].modes[t])
        cli == "xrandr --output " \o output_name \o " --mode "
               \o NatToStr(cur.width) \o "x" \o NatToStr(cur.height)
               \o " --rate " \o FormatF64(rate)
    IN  IF i = 0
        THEN Outcome("SetRate::NoOutput", <<output_name>>, <<>>, outs)
        ELSE IF outs[i].current = 0
        THEN Outcome("SetRate::NoMode", <<output_name>>, <<>>, outs)
        ELSE IF b = "xrandr_cli" THEN
            IF env.ok
            THEN Outcome("", <<>>, <<cli>>,
                         WithCurrent(outs, i, NearestRate(outs[i], cur, rate)))
            ELSE Outcome("SetRate::BackendCall", <<>>, <<cli>>, outs)
        ELSE IF t = 0 THEN Outcome("SetRate::NoRate", <<>>, <<>>, outs)
        ELSE IF SingleCommand(b, env, TRUE)
        THEN Outcome("", <<>>, <<cmd>>, WithCurrent(outs, i, t))
        ELSE Outcome("SetRate::BackendCall", <<>>, <<cmd>>, outs)

\* the target mode matched on the exact rate
backend_set_rate_exact(b, outs, output_name, rate, env) ==
    LET i == OutputIndex(outs, output_name)
        cur == outs[i].modes[outs[i].current]
        t == ModeIndex(outs[i], LAMBDA m :
                 /\ SameResolution(m, cur)
                 /\ m.refresh = rate)
        cmd == CASE b = "swayipc" ->
                       "output " \o output_name \o " mode "
                       \o ModeStr(outs[i].modes[t])
                  [] OTHER ->
                       "XHandle::set_mode " \o output_name \o " "
                       \o ModeStr(outs[i].modes[t])
        cli == "xrandr --output " \o output_name \o " --mode "
               \o NatToStr(cur.width) \o "x" \o NatToStr(cur.height)
               \o " --rate " \o FormatF64(rate)
    IN  IF i = 0
        THEN Outcome("SetRate::NoOutput", <<output_name>>, <<>>, outs)
        ELSE IF outs[i].current = 0
        THEN Outcome("SetRate::NoMode", <<output_name>>, <<>>, outs)
        ELSE IF b = "xrandr_cli" THEN
            IF env.ok
            THEN Outcome("", <<>>, <<cli>>,
                         WithCurrent(outs, i, NearestRate(outs[i], cur, rate)))
            ELSE Outcome("SetRate::BackendCall", <<>>, <<cli>>, outs)
        ELSE IF t = 0 THEN Outcome("SetRate::NoRate", <<>>, <<>>, outs)
        ELSE IF SingleCommand(b, env, TRUE)
        THEN Outcome("", <<>>, <<cmd>>, WithCurrent(outs, i, t))
        ELSE Outcome("SetRate::BackendCall", <<>>, <<cmd>>, outs)

\* DisplayBackend::set_rate
backend_set_rate(b, outs, output_name, rate, env) ==
    LET i == OutputIndex(outs, output_name)
        cur == outs[i].modes[outs[i].current]
        t == ModeIndex(outs[i], LAMBDA m :
                 /\ SameResolution(m, cur)
                 /\ Abs(m.refresh - rate) < RATE_EPSILON)
        cmd == CASE b = "swayipc" ->
                       "output " \o output_name \o " mode "
                       \o ModeStr(outs[i].modes[t])
                  [] OTHER ->
                       "XHandle::set_mode " \o output_name \o " "
                       \o ModeStr(outs[i].modes[t])
        cli == "xrandr --output " \o output_name \o " --mode "
               \o NatToStr(cur.width) \o "x" \o NatToStr(cur.height)
               \o " --rate " \o FormatF64(rate)
    IN  IF i = 0
        THEN Outcome("SetRate::NoOutput", <<output_name>>, <<>>, outs)
        ELSE IF outs[i].current = 0
        THEN Outcome("SetRate::NoMode", <<output_name>>, <<>>, outs)
        ELSE IF b = "xrandr_cli" THEN
            IF env.ok
            THEN Outcome("", <<>>, <<cli>>,
                         WithCurrent(outs, i, NearestRate(outs[i], cur, rate)))
            ELSE Outcome("SetRate::BackendCall", <<>>, <<cli>>, outs)
        ELSE IF t = 0 THEN Outcome("SetRate::NoRate", <<>>, <<>>, outs)
        ELSE IF SingleCommand(b, env, TRUE)
        THEN Outcome("", <<>>, <<cmd>>, WithCurrent(outs, i, t))
        ELSE Outcome("SetRate::BackendCall", <<>>, <<cmd>>, outs)

RelationXcl(r) ==
    CASE r = "LeftOf" -> "--left-of" [] r = "RightOf" -> "--right-of"
      [] r = "Above" -> "--above" [] r = "Below" -> "--below"
      [] r = "SameAs" -> "--same-as"

\* DisplayBackend::set_position.  The X server keeps the global geometry
\* itself; only the compositor driver computes rectangles
backend_set_position(b, outs, output_name, pos, env) ==
    LET i == OutputIndex(outs, output_name)
        j == OutputIndex(outs, pos.output_s)
    IN  CASE b = "swayipc" -> sway_set_position(outs, output_name, pos, env)
          [] b = "xrandr_cli" ->
               Outcome(IF env.ok /\ i # 0 /\ j # 0 THEN ""
                       ELSE "SetPosition::BackendCall", <<>>,
                       <<"xrandr --output " \o output_name \o " "
                         \o RelationXcl(pos.relation) \o " " \o pos.output_s>>,
                       outs)
          [] OTHER ->
               IF i = 0 \/ j = 0
               THEN Outcome("SetPosition::NoOutput", <<output_name>>, <<>>,
                            outs)
               ELSE IF outs[i].name = outs[j].name
               THEN PanicOutcome("assertion failed: UI should prohibit this",
                                 outs)
               ELSE Outcome(IF env.ok THEN ""
                            ELSE "SetPosition::BackendCall", <<>>,
                            <<"XHandle::set_position " \o output_name \o " "
                              \o pos.relation \o " " \o pos.output_s>>, outs)

---------------------------------------------------------------------------
(* Action executor *)

Call(method, output_name, payload) ==
    [method |-> method, output_name |-> output_name, arg |-> payload]

\* a call together with the error the backend method returned ("" for Ok)
\* and what the error carries
Returned(call, outcome) ==
    [method |-> call.method, output_name |-> call.output_name,
     arg |-> call.arg, returned |-> outcome.err, detail |-> outcome.detail]

\* the operation-specific payload a backend method receives
NoPayload == NoAction
ResPayload(a) == [NoAction EXCEPT !.width = a.width, !.height = a.height]
RatePayload(a) == [NoAction EXCEPT !.rate = a.rate]
RotPayload(a) == [NoAction EXCEPT !.rotation = a.rotation]
PosPayload(a) == [NoAction EXCEPT !.relation = a.relation,
                                  !.output_s = a.output_s]

\* Action::apply with the arm of SetPrimary going to the arm above it
Action_apply_wrong_arm(b, outs, a, env) ==
    LET output == a.output
    IN  CASE a.op = "Enable" ->
               [call |-> Call("enable", output, NoPayload),
                outcome |-> backend_enable(b, outs, output, env)]
          [] a.op = "Disable" ->
               [call |-> Call("disable", output, NoPayload),
                outcome |-> backend_disable(b, outs, output, env)]
          [] a.op = "SetPrimary" ->
               [call |-> Call("disable", output, NoPayload),
                outcome |-> backend_disable(b, outs, output, env)]
          [] a.op = "ChangeRes" ->
               [call |-> Call("set_resolution", output, ResPayload(a)),
                outcome |-> backend_set_resolution(b, outs, output,
                                                   ResPayload(a), env)]
          [] a.op = "ChangeRate" ->
               [call |-> Call("set_rate", output, RatePayload(a)),
                outcome |-> backend_set_rate(b, outs, output,
                                             RatePayload(a).rate, env)]
          [] a.op = "Rotate" ->
               [call |-> Call("set_rotation", output, RotPayload(a)),
                outcome |-> backend_set_rotation(b, outs, output,
                                                 RotPayload(a).rotation, env)]
          [] a.op = "Position" ->
               [call |-> Call("set_position", output, PosPayload(a)),
                outcome |-> backend_set_position(b, outs, output,
                                                 PosPayload(a), env)]

\* Action::apply(&self, backend): the call it makes and that call's outcome
Action_apply(b, outs, a, env) ==
    LET output == a.output
    IN  CASE a.op = "Enable" ->
               [call |-> Call("enable", output, NoPayload),
                outcome |-> backend_enable(b, outs, output, env)]
          [] a.op = "Disable" ->
               [call |-> Call("disable", output, NoPayload),
                outcome |-> backend_disable(b, outs, output, env)]
          [] a.op = "SetPrimary" ->
               [call |-> Call("set_primary", output, NoPayload),
                outcome |-> backend_set_primary(b, outs, output, env)]
          [] a.op = "ChangeRes" ->
               [call |-> Call("set_resolution", output, ResPayload(a)),
                outcome |-> backend_set_resolution(b, outs, output,
                                                   ResPayload(a), env)]
          [] a.op = "ChangeRate" ->
               [call |-> Call("set_rate", output, RatePayload(a)),
                outcome |-> backend_set_rate(b, outs, output,
                                             RatePayload(a).rate, env)]
          [] a.op = "Rotate" ->
               [call |-> Call("set_rotation", output, RotPayload(a)),
                outcome |-> backend_set_rotation(b, outs, output,
                                                 RotPayload(a).rotation, env)]
          [] a.op = "Position" ->
               [call |-> Call("set_position", output, PosPayload(a)),
                outcome |-> backend_set_position(b, outs, output,
                                                 PosPayload(a), env)]

---------------------------------------------------------------------------
(* The display server the program talks to *)

\* the modes every output offers, the preferred one first
ServerModes ==
    <<[width |-> 2, height |-> 1, refresh |-> 60000],
      [width |-> 2, height |-> 1, refresh |-> 59996],
      [width |-> 1, height |-> 2, refresh |-> 60000],
      [width |-> 1, height |-> 1, refresh |-> 50000]>>

\* the size of each output's rectangle in the compositor's layout
RectSize(name) ==
    CASE name = "eDP-1" -> [width |-> 2, height |-> 1]
      [] name = "HDMI-1" -> [width |-> 1, height |-> 2]
      [] OTHER -> [width |-> 1, height |-> 1]

ServerOutput(name, connected, enabled, x, y) ==
    [name |-> name, connected |-> connected,
     current |-> IF enabled THEN 1 ELSE 0,
     rect |-> [x |-> x, y |-> y, width |-> RectSize(name).width,
               height |-> RectSize(name).height],
     modes |-> ServerModes]

\* what the environment of a run decides: whether the call to the display
\* server succeeds, which sub-commands of a batch the compositor rejects,
\* and whether the program was built with overflow checks
Answers(n, builds) ==
    {[ok |-> TRUE, failed |-> F, overflow_checks |-> c] :
        F \in SUBSET (1..n), c \in builds}
    \cup {[ok |-> FALSE, failed |-> {}, overflow_checks |-> c] : c \in builds}

\* the answers to a single command
Replies(n) == Answers(n, {FALSE})

\* nothing was asked of the display server
NoReply == [ok |-> TRUE, failed |-> {}, overflow_checks |-> FALSE]

NoProbe == [asked |-> FALSE, entry |-> OutputEntry("", FALSE, FALSE),
            answer |-> Ops(<<>>)]

\* no invocation has started
NoBefore == [pushed |-> FALSE, back |-> FALSE, data |-> "",
             result |-> NoResult]

\* no list was asked of a driver
NoListing == [method |-> "", output |-> "", err |-> "", list |-> <<>>]

---------------------------------------------------------------------------
(* One run of the program: main() -> run() *)

\* the rows of the menu on screen that rofi lets the user select
MenuRows(res) ==
    IF res.kind # "Next" THEN {}
    ELSE {Row(res.list[i]) : i \in {k \in 1..Len(res.list) :
                                       ~res.list[k].non_selectable}}

\* the choices of a session about switching outputs on and off; the last
\* one is text only custom input can produce
CoreTokens == {"eDP-1", "HDMI-1", "Disable", "Yes", "No", "Back",
               "HDMI-1:Disable"}

Input(argv) == Trim(Head(Split(argv[1], "<")))

\* run(): Action::parse on the queue, then either the menu is printed or the
\* action is applied; any error is returned to main()
run_retry(b, outs, queue, env) ==
    LET parsed == Action_parse(b, outs, queue)
        applied == Action_apply(b, outs, parsed.action, env)
        again == Action_apply(b, applied.outcome.outs, parsed.action, env)
    IN  IF parsed.kind = "Done" /\ applied.outcome.err # ""
        THEN [parsed |-> parsed,
              calls |-> <<Returned(applied.call, applied.outcome),
                          Returned(again.call, again.outcome)>>,
              sent |-> applied.outcome.sent \o again.outcome.sent,
              outs |-> again.outcome.outs,
              err |-> again.outcome.err, panic |-> again.outcome.panic]
        ELSE IF parsed.kind = "Done"
        THEN [parsed |-> parsed,
              calls |-> <<Returned(applied.call, applied.outcome)>>,
              sent |-> applied.outcome.sent, outs |-> applied.outcome.outs,
              err |-> applied.outcome.err, panic |-> applied.outcome.panic]
        ELSE [parsed |-> parsed, calls |-> <<>>, sent |-> <<>>, outs |-> outs,
              err |-> parsed.err, panic |-> parsed.kind = "Panic"]

run(b, outs, queue, env) ==
    LET parsed == Action_parse(b, outs, queue)
        applied == Action_apply(b, outs, parsed.action, env)
    IN  IF parsed.kind = "Done"
        THEN [parsed |-> parsed,
              calls |-> <<Returned(applied.call, applied.outcome)>>,
              sent |-> applied.outcome.sent, outs |-> applied.outcome.outs,
              err |-> applied.outcome.err, panic |-> applied.outcome.panic]
        ELSE [parsed |-> parsed, calls |-> <<>>, sent |-> <<>>, outs |-> outs,
              err |-> parsed.err, panic |-> parsed.kind = "Panic"]

\* main(): exit(0) on Ok, exit(1) on Err; a panic ends the process with 101
main_exit(r) == IF r.panic THEN 101 ELSE IF r.err # "" THEN 1 ELSE 0

\* one invocation of the program by rofi: get_args(), run(), exit
Invocation(argv, env) ==
    \E queue \in {get_args(rofi_data, argv)} :
    \E r \in {run(backend, outputs, queue, env)} :
        /\ rofi_data' = data_line(queue)
        /\ args' = queue
        /\ chosen' = IF argv = NoArg THEN chosen
                     ELSE IF Input(argv) = "Back" THEN PopBack(chosen)
                     ELSE Append(chosen, Input(argv))
        /\ seen' = outputs
        /\ result' = r.parsed
        /\ calls' = r.calls
        /\ sent' = r.sent
        /\ outputs' = r.outs
        /\ error' = r.err
        /\ exit_code' = main_exit(r)
        /\ reply' = IF r.calls = <<>> THEN NoReply ELSE env
        /\ before' = IF argv = NoArg THEN NoBefore
                     ELSE IF Input(argv) = "Back"
                     THEN [NoBefore EXCEPT !.back = TRUE]
                     ELSE [pushed |-> TRUE, back |-> FALSE,
                           data |-> rofi_data, result |-> result]
        /\ UNCHANGED <<backend, probe, listing>>

\* rofi starts the script without a choice
Start ==
    /\ rofi_data = "" /\ exit_code = -1
    /\ Invocation(NoArg, NoReply)

\* the user picks a row of the menu or types text (rofi allows custom
\* input), and rofi runs the script again with it as argv[1]; a run that
\* printed no list (run() applied the action, or the process panicked) leaves
\* rofi nothing to show and ends the session
Choose(tokens) ==
    /\ exit_code # -1 /\ result.kind \in {"Next", "Err"}
    /\ \E row \in MenuRows(result) \cup tokens :
          /\ Input(<<row>>) \in tokens
          /\ Len(get_args(rofi_data, <<row>>)) <= MaxQueue
          /\ \E env \in Replies(1) : Invocation(<<row>>, env)

\* nothing has run yet
Idle ==
    /\ rofi_data = "" /\ chosen = <<>> /\ args = <<>> /\ seen = <<>>
    /\ result = NoResult /\ calls = <<>> /\ sent = <<>> /\ error = ""
    /\ exit_code = -1 /\ reply = NoReply /\ probe = NoProbe
    /\ listing = NoListing /\ before = NoBefore

\* the session starts on two outputs, each on or off; on X the second one
\* may be unplugged, the compositor lists connected outputs only
Init ==
    /\ backend \in Backends
    /\ \E c2, e1, e2 \in BOOLEAN :
          /\ backend = "swayipc" => c2
          /\ outputs = <<ServerOutput("eDP-1", TRUE, e1, 0, 0),
                         ServerOutput("HDMI-1", c2, e2, 2, 0)>>
    /\ Idle

Next == Start \/ Choose(CoreTokens)

Spec == Init /\ [][Next]_vars

---------------------------------------------------------------------------
(* One call of a driver or of Action::apply, from any state of the outputs *)

\* the actions the parser can hand to Action::apply
DrvOutputs == {"eDP-1", "HDMI-1", "VGA-1"}

DrvActions ==
    UNION {
        {ParseResult_enable(o).action, ParseResult_disable(o).action,
         ParseResult_primary(o).action}
        \cup {ParseResult_resolution(o, m).action :
                m \in {[width |-> 2, height |-> 1],
                       [width |-> 1, height |-> 2],
                       [width |-> 3, height |-> 3]}}
        \cup {ParseResult_rate(o, r).action : r \in {60000, 59990, 75000}}
        \cup {ParseResult_rotate(o, Rotations[k]).action :
                k \in 1..Len(Rotations)}
        \cup {ParseResult_position(o, Relations[k], o2).action :
                k \in 1..Len(Relations), o2 \in DrvOutputs}
        : o \in DrvOutputs}

\* each behaviour is one call
NoCallYet ==
    result = NoResult /\ calls = <<>> /\ ~probe.asked /\ listing = NoListing

\* action.apply(backend) on its own
DrvApply(acts, envs) ==
    /\ backend \in Backends /\ NoCallYet
    /\ \E a \in acts, env \in envs :
       \E r \in {Action_apply(backend, outputs, a, env)} :
          /\ seen' = outputs
          /\ result' = Done(a)
          /\ calls' = <<Returned(r.call, r.outcome)>>
          /\ sent' = r.outcome.sent
          /\ outputs' = r.outcome.outs
          /\ error' = r.outcome.err
          /\ exit_code' = IF r.outcome.panic THEN 101
                          ELSE IF r.outcome.err # "" THEN 1 ELSE 0
          /\ reply' = env
          /\ UNCHANGED <<backend, rofi_data, chosen, args, probe, listing,
                         before>>

\* the tokens of the queues handed to Action::parse on its own
ParseTokens == {"eDP-1", "HDMI-1", "VGA-1", "Disable", "Enable", "Yes", "No",
                "Rotate", "Left"}

\* the token queues of length n
RECURSIVE Queues(_)
Queues(n) ==
    IF n = 0 THEN {<<>>}
    ELSE {Append(q, t) : q \in Queues(n - 1), t \in ParseTokens}

\* what follows the output and "Position" in a queue: the choices of the
\* relation menu and of the target menu as get_args() hands them on, and
\* tokens that are neither
PositionTokens ==
    {"To the left of", "To the right of", "Above", "Below", "Mirroring",
     "eDP-1", "HDMI-1", "VGA-1", "Sideways"}

\* the queues of the Position operation, up to its last menu
PositionQueues ==
    {<<a, "Position">> \o rest :
        a \in {"eDP-1", "HDMI-1"},
        rest \in {<<>>} \cup {<<t>> : t \in PositionTokens}
                 \cup {<<t, u>> : t, u \in PositionTokens}}

\* value tokens of the resolution, rate, rotation and relation menus, and
\* text that is none of them
ValueTokens ==
    {"2x1", "3x3", "60.00 Hz", "59.99 Hz", "75.00 Hz", "Left", "Above",
     "", "Hz", "60", "60.", "abc Hz", "60.00abc", "2x", "x", "2x1x3", "left"}

\* the queues of the operations that take a value
ValueQueues ==
    {<<a, op, v>> :
        a \in {"eDP-1", "HDMI-1"},
        op \in {"Change resolution", "Change rate", "Rotate", "Position"},
        v \in ValueTokens}

\* the value tokens handed to Mode::parse
ModeTokens ==
    {"2x1@60.00Hz", "1x2@59.99Hz", "2x1", "2x1@", "2x1@H", "2x1@Hz",
     "2x1@abcHz", "2x@60.00Hz", "x1@60.00Hz", "2@60.00Hz", "@60.00Hz",
     "2x1x3@60.00Hz", "2x1@60.00ab", ""}

\* the queues that end with one of the remaining operation names
OperationQueues ==
    {<<a, op>> :
        a \in {"eDP-1", "HDMI-1"},
        op \in {"Make primary", "Change resolution", "Change rate"}}

\* queues of four and of five tokens: an output, any operation name or a text
\* that is none, and tokens beyond the ones the operation takes
LongQueues ==
    {<<a, op, v, w>> \o rest :
        a \in {"eDP-1", "VGA-1"},
        op \in {"Enable", "Disable", "Make primary", "Change resolution",
                "Change rate", "Rotate", "Position", "Reset"},
        v \in {"Yes", "2x1", "60.00 Hz", "Left", "Above"},
        w \in {"HDMI-1", "Yes"},
        rest \in {<<>>, <<"Yes">>}}

ParseQueues ==
    UNION {Queues(n) : n \in 0..MaxQueue} \cup PositionQueues
        \cup ValueQueues \cup OperationQueues \cup LongQueues

\* Action::parse(&mut backend, args) on its own, for any queue
DrvParse ==
    /\ backend \in Backends /\ NoCallYet
    /\ \E queue \in ParseQueues :
       \E parsed \in {Action_parse(backend, outputs, queue)} :
          /\ args' = queue
          /\ seen' = outputs
          /\ result' = parsed
          /\ error' = parsed.err
          /\ UNCHANGED <<backend, outputs, rofi_data, chosen, calls, sent,
                         exit_code, reply, probe, listing, before>>

\* Mode::parse(backend, ctx) of the generation with Operation::ChangeMode on
\* its own, for a context that holds a value token
DrvModeParse ==
    /\ backend = "xrandr_cli_mode" /\ NoCallYet
    /\ \E a \in {"eDP-1", "HDMI-1"}, v \in ModeTokens :
       \E parsed \in {Mode_parse(a, <<v>>)} :
          /\ args' = <<v>>
          /\ seen' = outputs
          /\ result' = parsed
          /\ error' = parsed.err
          /\ UNCHANGED <<backend, outputs, rofi_data, chosen, calls, sent,
                         exit_code, reply, probe, listing, before>>

\* the user picks a selectable row of the menu Action::parse yielded: rofi
\* runs the program with the queue so far in ROFI_DATA and the row as
\* argv[1]; get_args() pushes the choice and Action::parse runs on the result
DrvChoose ==
    /\ backend \in Backends /\ calls = <<>>
    /\ result.kind = "Next" /\ before = NoBefore
    /\ \E row \in MenuRows(result) :
       \E queue \in {get_args(data_line(args), <<row>>)} :
       \E parsed \in {Action_parse(backend, outputs, queue)} :
          /\ rofi_data' = data_line(queue)
          /\ args' = queue
          /\ seen' = outputs
          /\ result' = parsed
          /\ error' = parsed.err
          /\ before' = [pushed |-> TRUE, back |-> FALSE,
                        data |-> data_line(args), result |-> result]
          /\ UNCHANGED <<backend, outputs, chosen, calls, sent, exit_code,
                         reply, probe, listing>>

\* backend.supported_operations(&entry) on its own, for any entry
DrvSupportedOperations ==
    /\ NoCallYet
    /\ \E name \in DrvOutputs, connected, enabled \in BOOLEAN :
       \E entry \in {OutputEntry(name, connected, enabled)} :
          /\ probe' = [asked |-> TRUE, entry |-> entry,
                       answer |-> supported_operations(backend, entry)]
          /\ UNCHANGED <<backend, outputs, rofi_data, chosen, args, seen,
                         result, calls, sent, error, exit_code, reply,
                         listing, before>>

DrvInit ==
    /\ backend \in Drivers
    /\ \E c1, c2, e1, e2 \in BOOLEAN :
          /\ backend = "swayipc" => c1 /\ c2
          /\ outputs = <<ServerOutput("eDP-1", c1, e1, 0, 0),
                         ServerOutput("HDMI-1", c2, e2, 2, 0)>>
    /\ Idle

DrvNext ==
    \/ DrvParse
    \/ DrvChoose
    \/ DrvModeParse
    \/ DrvApply(DrvActions, Answers(1, {FALSE}))
    \/ DrvSupportedOperations

DrvSpec == DrvInit /\ [][DrvNext]_vars

---------------------------------------------------------------------------
(* The compositor driver's set_position from any layout *)

\* starting coordinates: the ends of the range of i32 and the values
\* around zero
StartCoords == {I32Min, -1, 0, I32Max}

PosActions == {a \in DrvActions : a.op = "Position"}

PosInit ==
    /\ backend = "swayipc"
    /\ \E x1, y1, x2, y2 \in StartCoords :
          outputs = <<ServerOutput("eDP-1", TRUE, TRUE, x1, y1),
                      ServerOutput("HDMI-1", TRUE, TRUE, x2, y2)>>
    /\ Idle

PosNext == DrvApply(PosActions, Answers(2, BOOLEAN))

PosSpec == PosInit /\ [][PosNext]_vars

---------------------------------------------------------------------------
(* The compositor driver's set_position on three outputs, called once and
   then once more with the same arguments *)

LayoutNames == {"eDP-1", "HDMI-1", "VGA-1"}

LayoutActions ==
    {ParseResult_position(o, Relations[k], o2).action :
        o \in LayoutNames, k \in 1..Len(Relations), o2 \in LayoutNames}

\* the rows the three outputs may start in
StartRows == {0, 1}

LayoutInit ==
    /\ backend = "swayipc"
    /\ \E x1, x2 \in StartCoords, y1, y2, y3 \in StartRows :
          outputs = <<ServerOutput("eDP-1", TRUE, TRUE, x1, y1),
                      ServerOutput("HDMI-1", TRUE, TRUE, x2, y2),
                      ServerOutput("VGA-1", TRUE, TRUE, 0, y3)>>
    /\ Idle

\* action.apply(backend) of a position action; calls keeps the calls made
LayoutApply(a, env) ==
    \E r \in {Action_apply(backend, outputs, a, env)} :
        /\ seen' = outputs
        /\ result' = Done(a)
        /\ calls' = Append(calls, Returned(r.call, r.outcome))
        /\ sent' = r.outcome.sent
        /\ outputs' = r.outcome.outs
        /\ error' = r.outcome.err
        /\ exit_code' = IF r.outcome.panic THEN 101
                        ELSE IF r.outcome.err # "" THEN 1 ELSE 0
        /\ reply' = env
        /\ UNCHANGED <<backend, rofi_data, chosen, args, probe, listing,
                       before>>

LayoutSetPosition ==
    /\ NoCallYet
    /\ \E a \in LayoutActions, env \in Answers(1, BOOLEAN) :
          LayoutApply(a, env)

\* the user makes the same choices once more; the compositor applies
\* whatever it is sent
LayoutRepeat ==
    /\ Len(calls) = 1 /\ result.kind = "Done"
    /\ LayoutApply(result.action, [reply EXCEPT !.ok = TRUE, !.failed = {}])

LayoutNext == LayoutSetPosition \/ LayoutRepeat

LayoutSpec == LayoutInit /\ [][LayoutNext]_vars

---------------------------------------------------------------------------
(* One list query of a driver, for any modes the display server reports *)

\* the longest mode list of an output
MaxModes == 3

\* the modes an output may have: one resolution at three rates, two of them
\* closer than RATE_EPSILON, and two more resolutions, one of the same
\* pixel count
ModePool ==
    {[width |-> 2, height |-> 1, refresh |-> 60000],
     [width |-> 2, height |-> 1, refresh |-> 59996],
     [width |-> 2, height |-> 1, refresh |-> 50000],
     [width |-> 1, height |-> 2, refresh |-> 60000],
     [width |-> 1, height |-> 1, refresh |-> 60000]}

\* the mode lists of length n, in any order and with repetitions
RECURSIVE ModeLists(_)
ModeLists(n) ==
    IF n = 0 THEN {<<>>}
    ELSE {Append(l, m) : l \in ModeLists(n - 1), m \in ModePool}

\* the outputs a list can be asked for: one that exists, one that does not
ModeOutputs == {"eDP-1", "VGA-1"}

Listing(method, output, answer) ==
    [method |-> method, output |-> output, err |-> answer.err,
     list |-> answer.list]

\* backend.get_resolutions(output) on its own
ModeGetResolutions ==
    /\ backend \in Backends /\ NoCallYet
    /\ \E name \in ModeOutputs :
          listing' = Listing("get_resolutions", name,
                             get_resolutions(backend, outputs, name))
    /\ UNCHANGED <<backend, outputs, rofi_data, chosen, args, seen, result,
                   calls, sent, error, exit_code, reply, probe, before>>

\* backend.get_rates(output) on its own
ModeGetRates ==
    /\ backend \in Backends /\ NoCallYet
    /\ \E name \in ModeOutputs :
          listing' = Listing("get_rates", name,
                             get_rates(backend, outputs, name))
    /\ UNCHANGED <<backend, outputs, rofi_data, chosen, args, seen, result,
                   calls, sent, error, exit_code, reply, probe, before>>

\* backend.get_modes(output) on its own
ModeGetModes ==
    /\ backend = "xrandr_cli_mode" /\ NoCallYet
    /\ \E name \in ModeOutputs :
          listing' = Listing("get_modes", name, get_modes(outputs, name))
    /\ UNCHANGED <<backend, outputs, rofi_data, chosen, args, seen, result,
                   calls, sent, error, exit_code, reply, probe, before>>

\* ParseResult::resolution_list(backend, output) on its own
ModeResolutionList ==
    /\ backend \in Backends /\ NoCallYet
    /\ \E name \in ModeOutputs :
       \E r \in {resolution_list(backend, outputs, name)} :
          /\ result' = r
          /\ error' = r.err
          /\ seen' = outputs
          /\ listing' = Listing("resolution_list", name,
                                get_resolutions(backend, outputs, name))
    /\ UNCHANGED <<backend, outputs, rofi_data, chosen, args, calls, sent,
                   exit_code, reply, probe, before>>

\* ParseResult::rate_list(backend, output) on its own
ModeRateList ==
    /\ backend \in Backends /\ NoCallYet
    /\ \E name \in ModeOutputs :
       \E r \in {rate_list(backend, outputs, name)} :
          /\ result' = r
          /\ error' = r.err
          /\ seen' = outputs
          /\ listing' = Listing("rate_list", name,
                                get_rates(backend, outputs, name))
    /\ UNCHANGED <<backend, outputs, rofi_data, chosen, args, calls, sent,
                   exit_code, reply, probe, before>>

\* the user picks a row of the rate menu on screen: rofi runs the program
\* with the queue [output, Change rate] in ROFI_DATA and the row as argv[1]
ModeChooseRate ==
    /\ listing.method = "rate_list" /\ result.kind = "Next" /\ calls = <<>>
    /\ \E row \in MenuRows(result), env \in Answers(1, {FALSE}) :
       \E queue \in {get_args(data_line(<<listing.output, "Change rate">>),
                              <<row>>)} :
       \E r \in {run(backend, outputs, queue, env)} :
          /\ args' = queue
          /\ seen' = outputs
          /\ result' = r.parsed
          /\ calls' = r.calls
          /\ sent' = r.sent
          /\ outputs' = r.outs
          /\ error' = r.err
          /\ exit_code' = main_exit(r)
          /\ reply' = env
    /\ UNCHANGED <<backend, rofi_data, chosen, probe, listing, before>>

\* the rates set_rate is called with: those of the pool, one within
\* RATE_EPSILON of one of them, and one no mode has
SetRates == {60000, 59990, 50000, 75000}

RateActions ==
    {ParseResult_rate(o, r).action : o \in ModeOutputs, r \in SetRates}

\* backend.set_rate(output, rate) through Action::apply, on its own
ModeSetRate == DrvApply(RateActions, Answers(1, {FALSE}))

\* one connected output with any mode list; current is the index of its
\* current mode, 0 when it is disabled
ModeInit ==
    /\ backend \in Drivers
    /\ \E n \in 1..MaxModes : \E modes \in ModeLists(n) :
       \E current \in 0..n :
          outputs = <<[ServerOutput("eDP-1", TRUE, TRUE, 0, 0)
                          EXCEPT !.modes = modes, !.current = current]>>
    /\ Idle

ModeNext ==
    \/ ModeGetResolutions
    \/ ModeGetRates
    \/ ModeGetModes
    \/ ModeResolutionList
    \/ ModeRateList
    \/ ModeChooseRate
    \/ ModeSetRate

ModeSpec == ModeInit /\ [][ModeNext]_vars

---------------------------------------------------------------------------
(* Properties of a session (Spec) *)

Ran == exit_code # -1

\* the entries the last invocation got from get_outputs
Entries == get_outputs(backend, seen)

OtherEnabled(name) ==
    \E i \in 1..Len(Entries) : Entries[i].name # name /\ Entries[i].enabled

\* name is the one output that is enabled and connected
LastActive(name) ==
    \A i \in 1..Len(Entries) :
        (Entries[i].enabled /\ Entries[i].connected) <=> Entries[i].name = name

\* C1: parser resumability.  Supplying the tokens one at a time, each
\* invocation appending the chosen token to the queue round-tripped through
\* ROFI_DATA, ends in the same result as one fresh Action::parse on the whole
\* sequence of chosen tokens with the same output set.
C1_Resumable == Ran => result = Action_parse(backend, seen, chosen)

\* C2: last-display-disable.  With exactly one output that is enabled and
\* connected, the queue [o, Disable] for that output never yields Done; it
\* yields the confirmation menu.
C2_LastDisplayConfirm ==
    \A i \in 1..Len(Entries) :
        (Ran /\ args = <<Entries[i].name, "Disable">>
             /\ LastActive(Entries[i].name))
        => result = confirm_disable_list

\* C3: supplying "Yes" completes the request.  For every existing output o
\* the queue [o, Disable, Yes] yields Done(Action{output: o, op: Disable}).
C3_YesDisables ==
    \A i \in 1..Len(Entries) :
        args = <<Entries[i].name, "Disable", "Yes">>
        => result = Done(Action(Entries[i].name, "Disable"))

C3_Witness ==
    /\ args = <<"HDMI-1", "Disable", "Yes">>
    /\ OtherEnabled("HDMI-1")
    /\ \E i \in 1..Len(Entries) :
          Entries[i].name = "HDMI-1" /\ ~Entries[i].connected
    /\ result.kind = "Done" /\ result.action.op = "Disable"

\* C4: declining the last-display confirmation (a token other than "Yes"
\* after Disable) is a controlled cancellation: no action, no state-changing
\* backend call, and the invocation does not end through the error channel.
C4_DeclineIsNoError ==
    \A i \in 1..Len(Entries) :
        (/\ Ran /\ Len(args) = 3 /\ args[1] = Entries[i].name
         /\ args[2] = "Disable" /\ args[3] # "Yes"
         /\ ~OtherEnabled(Entries[i].name))
        => /\ result.kind # "Done" /\ calls = <<>>
           /\ error = "" /\ exit_code = 0

\* C5: when another output is enabled, the queue [o, Disable] yields
\* Done(Action{output: o, op: Disable}) at once, and executing it calls
\* backend.disable(o).
C5_ImmediateDisable ==
    \A i \in 1..Len(Entries) :
        (Ran /\ args = <<Entries[i].name, "Disable">>
             /\ OtherEnabled(Entries[i].name))
        => /\ result = Done(Action(Entries[i].name, "Disable"))
           /\ Len(calls) = 1 /\ calls[1].method = "disable"
           /\ calls[1].output_name = Entries[i].name

StateChanging == {"enable", "disable", "set_primary", "set_resolution",
                  "set_rate", "set_rotation", "set_position"}

\* C7: in one invocation a state-changing backend method is called at most
\* once and only when the parse result is Done; on Next or on any error of
\* the parser nothing is called and the display server is left alone; every
\* error ends the invocation with a non-zero exit, and nothing is retried.
C7_AtMostOneCall ==
    Ran =>
        /\ Len(calls) <= 1 /\ Len(sent) <= 1
        /\ \A k \in 1..Len(calls) : calls[k].method \in StateChanging
        /\ calls # <<>> => result.kind = "Done"
        /\ result.kind # "Done" =>
              calls = <<>> /\ sent = <<>> /\ outputs = seen
        /\ (error # "" \/ result.kind \in {"Err", "Panic"}) => exit_code # 0
        /\ exit_code = 0 => error = ""

C7_Witness ==
    /\ Ran /\ result.kind = "Done" /\ Len(calls) = 1
    /\ error # "" /\ exit_code = 1 /\ sent # <<>>

---------------------------------------------------------------------------
(* Properties of one driver call (DrvSpec, PosSpec) *)

Applied_ == result.kind = "Done" /\ calls # <<>>

\* the method the operation tag names
MethodOf(op) ==
    CASE op = "Enable" -> "enable" [] op = "Disable" -> "disable"
      [] op = "SetPrimary" -> "set_primary"
      [] op = "ChangeRes" -> "set_resolution"
      [] op = "ChangeRate" -> "set_rate" [] op = "Rotate" -> "set_rotation"
      [] op = "Position" -> "set_position"

\* what that method does when called with the action's output and payload
MethodOutcome(b, outs, a, env) ==
    CASE a.op = "Enable" -> backend_enable(b, outs, a.output, env)
      [] a.op = "Disable" -> backend_disable(b, outs, a.output, env)
      [] a.op = "SetPrimary" -> backend_set_primary(b, outs, a.output, env)
      [] a.op = "ChangeRes" ->
           backend_set_resolution(b, outs, a.output,
                                  [NoAction EXCEPT !.width = a.width,
                                                   !.height = a.height], env)
      [] a.op = "ChangeRate" ->
           backend_set_rate(b, outs, a.output, a.rate, env)
      [] a.op = "Rotate" ->
           backend_set_rotation(b, outs, a.output, a.rotation, env)
      [] a.op = "Position" ->
           backend_set_position(b, outs, a.output,
                                [NoAction EXCEPT !.relation = a.relation,
                                                 !.output_s = a.output_s],
                                env)

\* C6: Action::apply calls exactly one backend method, the one matching the
\* action's operation tag, with the action's output name and payload, and
\* returns that method's error unchanged; what reaches the display server is
\* what that one method sends.
C6_PureDispatch ==
    Applied_ =>
        /\ Len(calls) = 1
        /\ calls[1].method = MethodOf(result.action.op)
        /\ calls[1].output_name = result.action.output
        /\ calls[1].arg = [result.action EXCEPT !.output = "", !.op = ""]
        /\ LET m == MethodOutcome(backend, seen, result.action, reply)
           IN  /\ calls[1].returned = m.err /\ error = m.err
               /\ sent = m.sent /\ outputs = m.outs
               /\ (exit_code = 101) = m.panic

C6_Witness ==
    /\ Applied_ /\ result.action.op = "Position"
    /\ calls[1].method = "set_position" /\ calls[1].arg.relation = "Above"
    /\ error = "SetPosition::BackendCall" /\ sent # <<>>

XMin == Min({outputs[i].rect.x : i \in 1..Len(outputs)})
YMin == Min({outputs[i].rect.y : i \in 1..Len(outputs)})

\* the last call was set_position and it returned Ok
Positioned ==
    /\ Applied_ /\ calls[1].method = "set_position"
    /\ error = "" /\ exit_code = 0

\* C8: position normalization (IPC driver).  After set_position of any
\* single output, for any relation and reference output and any starting
\* rectangles, the minimum x and the minimum y over the rectangles of all
\* outputs are exactly zero.
C8_Normalized == Positioned => XMin = 0 /\ YMin = 0

Rect(name) == outputs[OutputIndex(outputs, name)].rect

\* C9: after set_position(o, r, ref) the rectangle of o satisfies the
\* equation of r relative to the rectangle of ref after the call, for every
\* o and ref the driver accepts.
C9_RelationHolds ==
    Positioned =>
        LET o == Rect(result.action.output)
            ref == Rect(result.action.output_s)
            r == result.action.relation
        IN  /\ r = "LeftOf" => o.x = ref.x - o.width /\ o.y = ref.y
            /\ r = "RightOf" => o.x = ref.x + ref.width /\ o.y = ref.y
            /\ r = "Above" => o.x = ref.x /\ o.y = ref.y - o.height
            /\ r = "Below" => o.x = ref.x /\ o.y = ref.y + ref.height
            /\ r = "SameAs" => o.x = ref.x /\ o.y = ref.y

Disconnected == probe.asked /\ ~probe.entry.connected

ConnectedDisabled ==
    probe.asked /\ probe.entry.connected /\ ~probe.entry.enabled

\* C11: for every output with connected = true and enabled = false,
\* supported_operations returns exactly {Enable}, in each driver.
C11_EnableOnly ==
    ConnectedDisabled =>
        ~probe.answer.panic /\ probe.answer.ops = <<"Enable">>

C11_Witness ==
    /\ ConnectedDisabled /\ backend = "swayipc"
    /\ probe.answer.ops = <<"Enable">>

ConnectedEnabled ==
    probe.asked /\ probe.entry.connected /\ probe.entry.enabled

\* the operations that change the mode, in the Operation enum of the
\* driver's generation
ModeChanging(d) ==
    IF d = "xrandr_cli_mode" THEN {"ChangeMode"}
    ELSE {"ChangeRes", "ChangeRate"}

Offered == {probe.answer.ops[k] : k \in 1..Len(probe.answer.ops)}

\* C12: for every output with connected = true and enabled = true,
\* supported_operations returns Disable, SetPrimary, the mode-changing
\* operations, Position and Rotate, each once; the IPC driver returns the
\* same without SetPrimary; Enable is never offered for an enabled output.
C12_FullSetWithoutEnable ==
    ConnectedEnabled =>
        /\ ~probe.answer.panic
        /\ Offered = {"Disable", "Position", "Rotate"}
                        \cup ModeChanging(backend)
                        \cup (IF backend = "swayipc" THEN {}
                              ELSE {"SetPrimary"})
        /\ Cardinality(Offered) = Len(probe.answer.ops)
        /\ "Enable" \notin Offered

C12_Witness ==
    /\ ConnectedEnabled /\ backend = "xrandr_cli_mode"
    /\ "ChangeMode" \in Offered /\ "SetPrimary" \in Offered

\* the text of a menu row as get_args() pushes it on the queue
Chosen(item) == Input(<<Row(item)>>)

\* the row of relation r in the relation menu
RelationItem(r) == ListItem(RelationDisplay(r), <<>>, FALSE)

Active(name) ==
    \E i \in 1..Len(Entries) :
        /\ Entries[i].name = name
        /\ Entries[i].connected /\ Entries[i].enabled

Texts(list) == {Chosen(list[k]) : k \in 1..Len(list)}

\* C13: for two distinct connected, enabled outputs A and B and any
\* relation r, the queue [A, Position, text(r), B] yields
\* Done(Action{A, Position(r, B)}); [A, Position] yields the relation menu
\* and [A, Position, text(r)] the target menu.
C13_PositionQueue ==
    \A A, B \in DrvOutputs : \A k \in 1..Len(Relations) :
        LET r == Relations[k]
            text == Chosen(RelationItem(r))
        IN  Active(A) /\ Active(B) /\ A # B =>
            /\ args = <<A, "Position", text, B>> =>
                  /\ result.kind = "Done"
                  /\ result.action =
                        [output |-> A, op |-> "Position", relation |-> r,
                         output_s |-> B, rotation |-> "", width |-> 0,
                         height |-> 0, rate |-> 0]
            /\ args = <<A, "Position">> =>
                  /\ result.kind = "Next"
                  /\ result.prompt = "Select position"
                  /\ text \in Texts(result.list) <=>
                        (r # "SameAs" \/ backend # "swayipc")
            /\ args = <<A, "Position", text>> =>
                  /\ result.kind = "Next"
                  /\ result.prompt = "Select output"
                  /\ Texts(result.list) =
                        {Entries[i].name : i \in 1..Len(Entries)} \ {A}

C13_Witness ==
    /\ args = <<"HDMI-1", "Position", "To the left of", "eDP-1">>
    /\ Active("HDMI-1") /\ Active("eDP-1")
    /\ result.kind = "Done" /\ result.action.output = "HDMI-1"
    /\ result.action.relation = "LeftOf"
    /\ result.action.output_s = "eDP-1"

\* Action::parse has run on the queue in args
Parsed == backend \in Backends /\ result # NoResult /\ calls = <<>>

\* the index in Entries of the output named name, 0 when there is none
EntryIndex(name) ==
    IF \E i \in 1..Len(Entries) : Entries[i].name = name
    THEN CHOOSE i \in 1..Len(Entries) :
            /\ Entries[i].name = name
            /\ \A j \in 1..(i - 1) : Entries[j].name # name
    ELSE 0

\* the rows of the operations ops, in their order
OperationRows(ops) ==
    [k \in 1..Len(ops) |-> ListItem(OperationDisplay(ops[k]), <<>>, FALSE)]

\* C14: with a queue holding only an output token, the parser fails with
\* NoSuchOutput when no output has exactly that name, and otherwise yields
\* Next with the operation menu whose items are supported_operations(output)
\* of the active backend, in that order.
C14_OperationMenu ==
    Parsed /\ Len(args) = 1 =>
        LET i == EntryIndex(args[1])
        IN  IF i = 0
            THEN /\ result.kind = "Err"
                 /\ result.err = "AppError::NoOuput"
                 /\ result.detail = <<args[1]>>
            ELSE /\ result.kind = "Next"
                 /\ result.prompt = "Select operation"
                 /\ result.list =
                      OperationRows(
                          supported_operations(backend, Entries[i]).ops)

C14_Witness ==
    /\ Parsed /\ args = <<"eDP-1">> /\ backend = "swayipc"
    /\ Active("eDP-1") /\ Len(result.list) = 5
    /\ Chosen(result.list[2]) = "Change resolution"

C14_WitnessNoOutput ==
    /\ Parsed /\ args = <<"VGA-1">> /\ result.err = "AppError::NoOuput"

\* the names Action::parse matches the operation token against
OperationNames ==
    {"Enable", "Disable", "Make primary", "Change resolution", "Change rate",
     "Rotate", "Position"}

UnknownOperation ==
    /\ Parsed /\ Len(args) >= 2
    /\ EntryIndex(args[1]) # 0
    /\ args[2] \notin OperationNames

\* C15: for an existing output, a second token that is none of the
\* operation names makes the parser fail with the InvalidOperation parse
\* error carrying the offending operation string; it never yields Done or
\* Next.
C15_InvalidOperation ==
    UnknownOperation =>
        /\ result.kind = "Err"
        /\ result.err = "ParseError::Operation"
        /\ result.detail # <<>> /\ Head(result.detail) = args[2]

C15_Witness ==
    /\ UnknownOperation /\ args = <<"eDP-1", "Left", "Yes">>
    /\ result.err = "ParseError::Operation"
    /\ result.detail = <<"Left", "Yes">>

\* the output menu of the empty queue is on screen
OutputMenu == Parsed /\ args = <<>> /\ result.kind = "Next"

\* C16 as stated: with an empty queue the parser yields Next with a menu
\* that lists every output of the backend exactly once, all connected
\* outputs before all disconnected ones; disconnected entries are annotated
\* as disconnected and their non-selectable flag is false.
C16_OutputMenu ==
    Parsed /\ args = <<>> =>
        /\ result.kind = "Next"
        /\ Len(result.list) = Len(Entries)
        /\ \A i \in 1..Len(Entries) :
              \E k \in 1..Len(result.list) :
                  /\ result.list[k].text = Entries[i].name
                  /\ ~Entries[i].connected =>
                        /\ result.list[k].comments = <<"disconnected">>
                        /\ result.list[k].non_selectable = FALSE
                        /\ \A j \in 1..Len(Entries) :
                              Entries[j].connected =>
                                \E n \in 1..(k - 1) :
                                    result.list[n].text = Entries[j].name

\* the part of C16 that the code does: every output once, connected ones
\* first, disconnected ones annotated, and their non-selectable flag true
C16_OutputMenuNonSelectable ==
    Parsed /\ args = <<>> =>
        /\ result.kind = "Next"
        /\ Len(result.list) = Len(Entries)
        /\ \A i \in 1..Len(Entries) :
              \E k \in 1..Len(result.list) :
                  /\ result.list[k].text = Entries[i].name
                  /\ result.list[k].non_selectable = ~Entries[i].connected
                  /\ ~Entries[i].connected =>
                        /\ result.list[k].comments = <<"disconnected">>
                        /\ \A j \in 1..Len(Entries) :
                              Entries[j].connected =>
                                \E n \in 1..(k - 1) :
                                    result.list[n].text = Entries[j].name

C16_Witness ==
    /\ OutputMenu /\ backend = "libxrandr"
    /\ Len(result.list) = 2 /\ result.list[1].text = "HDMI-1"
    /\ result.list[2] = ListItem("eDP-1", <<"disconnected">>, TRUE)

\* the relation menu is on screen
RelationMenu ==
    Parsed /\ result.kind = "Next" /\ result.prompt = "Select position"

\* C17 as stated: for each Relation variant, the text Display gives it,
\* parsed back by Relation::from_str, is the variant.  It is stated on the
\* texts of the relation menu, which are the Display texts of the variants.
C17_RoundTrip ==
    RelationMenu =>
        \A k \in 1..Len(result.list) :
            RelationFromStr(result.list[k].text)
                = supported_relations(backend)[k]

\* what the program relies on instead: the text round-trips once get_args()
\* has trimmed it
C17_RoundTripTrimmed ==
    RelationMenu =>
        \A k \in 1..Len(result.list) :
            RelationFromStr(Chosen(result.list[k]))
                = supported_relations(backend)[k]

C17_Witness ==
    /\ RelationMenu /\ backend = "xrandr_cli" /\ Len(result.list) = 5
    /\ result.list[5].text = "Mirroring "
    /\ RelationFromStr(result.list[5].text) = ""

RelationSet(rels) == {rels[k] : k \in 1..Len(rels)}

\* C18: supported_relations of the IPC driver is exactly {LeftOf, RightOf,
\* Above, Below}; that of the native and CLI drivers is all five relations;
\* the relation menu shows exactly that set.
C18_SupportedRelations ==
    LET expected == IF backend = "swayipc"
                    THEN {"LeftOf", "RightOf", "Above", "Below"}
                    ELSE {"LeftOf", "RightOf", "Above", "Below", "SameAs"}
    IN  /\ RelationSet(supported_relations(backend)) = expected
        /\ Len(supported_relations(backend)) = Cardinality(expected)
        /\ RelationMenu =>
              /\ Len(result.list) = Cardinality(expected)
              /\ Texts(result.list)
                    = {Chosen(RelationItem(r)) : r \in expected}

C18_Witness ==
    /\ RelationMenu /\ backend = "swayipc"
    /\ args = <<"eDP-1", "Position">>
    /\ Texts(result.list)
          = {"To the left of", "To the right of", "Above", "Below"}

\* a driver has returned a list of rates or of modes
RatesListed == listing.method = "get_rates" /\ listing.err = ""
ModesListed == listing.method = "get_modes" /\ listing.err = ""

\* entries i and j of the list are one mode: the same width and height (the
\* rates of get_rates are those of one resolution) and rates within 0.01
SameMode(list, i, j) ==
    IF listing.method = "get_rates"
    THEN Abs(list[i].val - list[j].val) < RATE_EPSILON
    ELSE /\ list[i].width = list[j].width
         /\ list[i].height = list[j].height
         /\ Abs(list[i].rate - list[j].rate) < RATE_EPSILON

\* C19 as stated: in the list of modes or rates a driver returns for an
\* output, two modes with identical width and height and rates within 0.01
\* of each other collapse to one entry, whatever order the display server
\* reports the modes in.
C19_Deduplicated ==
    RatesListed \/ ModesListed =>
        \A i, j \in 1..Len(listing.list) :
            i # j => ~SameMode(listing.list, i, j)

\* C19 in each driver on its own
C19_DeduplicatedSway == backend = "swayipc" => C19_Deduplicated
C19_DeduplicatedLibxrandr == backend = "libxrandr" => C19_Deduplicated
C19_DeduplicatedCliModes == backend = "xrandr_cli_mode" => C19_Deduplicated

C19_Witness ==
    /\ RatesListed /\ backend = "libxrandr" /\ Len(listing.list) = 2
    /\ listing.list[1].val = 60000 /\ listing.list[2].val = 59996

\* the resolution menu of an output is on screen
ResolutionMenu ==
    listing.method = "resolution_list" /\ result.kind = "Next"

\* the sort key of an entry: pixel count, width, rate (0 where the list has
\* no rates)
Key(w, h, rate) == <<w * h, w, rate>>

KeyGreater(a, b) ==
    \/ a[1] > b[1]
    \/ a[1] = b[1] /\ a[2] > b[2]
    \/ a[1] = b[1] /\ a[2] = b[2] /\ a[3] > b[3]

\* the key of a row of the resolution menu, read from its text
RowKey(item) ==
    LET res == ResolutionFromStr(item.text)
    IN  Key(res.width, res.height, 0)

\* C20 as stated: the list of resolutions or modes shown for an output is
\* sorted strictly descending by (width*height, width, rate): for every two
\* consecutive entries a before b, the key of a is strictly greater than
\* the key of b, also when two resolutions have the same pixel count.
C20_StrictlyDescending ==
    /\ ResolutionMenu =>
          \A k \in 1..(Len(result.list) - 1) :
              KeyGreater(RowKey(result.list[k]), RowKey(result.list[k + 1]))
    /\ ModesListed =>
          \A k \in 1..(Len(listing.list) - 1) :
              LET a == listing.list[k]
                  b == listing.list[k + 1]
              IN  KeyGreater(Key(a.width, a.height, a.rate),
                             Key(b.width, b.height, b.rate))

\* C20 in each driver on its own
C20_StrictlyDescendingSway == backend = "swayipc" => C20_StrictlyDescending
C20_StrictlyDescendingLibxrandr ==
    backend = "libxrandr" => C20_StrictlyDescending
C20_StrictlyDescendingCli == backend = "xrandr_cli" => C20_StrictlyDescending
C20_StrictlyDescendingCliModes ==
    backend = "xrandr_cli_mode" => C20_StrictlyDescending

\* what the menu does keep: the pixel count never increases down the list
C20_PixelCountDescending ==
    ResolutionMenu =>
        \A k \in 1..(Len(result.list) - 1) :
            RowKey(result.list[k])[1] >= RowKey(result.list[k + 1])[1]

C20_Witness ==
    /\ ResolutionMenu /\ backend = "swayipc" /\ Len(result.list) = 2
    /\ result.list[1].text = "1x2" /\ result.list[2].text = "2x1"

\* a driver was asked for the resolutions or the rates of an output
ListAsked == listing.method \in {"get_resolutions", "get_rates"}

\* the asked name is not a live output
NoSuchOutput == \A i \in 1..Len(outputs) : outputs[i].name # listing.output

\* the asked output is there and has no current mode
NoCurrentMode ==
    \E i \in 1..Len(outputs) :
        outputs[i].name = listing.output /\ outputs[i].current = 0

\* C21 as stated: in every driver, listing the resolutions or rates of a
\* name that is not a live output fails with NoSuchOutput, and listing them
\* for an output that has no current mode fails with NoCurrentMode; no list
\* is returned in either case.
C21_ListErrors ==
    ListAsked =>
        /\ NoSuchOutput =>
              /\ listing.err \in {"GetResolutions::NoOutput",
                                   "GetRates::NoOutput"}
              /\ listing.list = <<>>
        /\ NoCurrentMode =>
              /\ listing.err \in {"GetResolutions::GetCurrent",
                                   "GetRates::GetCurrent"}
              /\ listing.list = <<>>

\* C21 without get_resolutions of the CLI driver
C21_ListErrorsElsewhere ==
    \/ (backend = "xrandr_cli" /\ listing.method = "get_resolutions")
    \/ C21_ListErrors

C21_Witness ==
    /\ ListAsked /\ NoCurrentMode /\ backend = "xrandr_cli"
    /\ listing.method = "get_resolutions"
    /\ listing.err = "" /\ listing.list # <<>>

\* the last invocation pushed a token, and this step is the Back choice
BackAfterChoice == before.pushed /\ before'.back

\* C22 as stated: for every queue q and every token t other than Back,
\* choosing t and then Back leaves the persisted queue equal to q and shows
\* again the menu of q; Back on an empty queue leaves the queue empty and
\* shows the output menu.
C22_BackUndoes ==
    [][/\ BackAfterChoice =>
            rofi_data' = before.data /\ result' = before.result
       /\ (before'.back /\ rofi_data = "") =>
            rofi_data' = "" /\ result' = output_list(backend, outputs)]_vars

\* a token the ROFI_DATA line carries unchanged: not empty, without ':'
Plain(t) == t # "" /\ FindChar(t, ":", 1) = 0

\* C22 when every token chosen so far survives the ROFI_DATA line
C22_BackUndoesPlain ==
    [][(BackAfterChoice /\ \A k \in 1..Len(chosen) : Plain(chosen[k])) =>
            rofi_data' = before.data /\ result' = before.result]_vars

\* Back has just undone a choice
C22_Witness ==
    /\ before.back /\ rofi_data = "eDP-1" /\ chosen = <<"eDP-1">>
    /\ result.kind = "Next" /\ result.prompt = "Select operation"

\* what a valid value is: the texts of the menus
ValidResolution(v) ==
    LET d == Split(v, "x")
    IN  Len(d) = 2 /\ AllDigits(d[1]) /\ AllDigits(d[2])

ValidNumber(v) ==
    LET d == Split(v, ".")
    IN  \/ Len(d) = 1 /\ AllDigits(d[1])
        \/ Len(d) = 2 /\ AllDigits(d[1]) /\ AllDigits(d[2])

\* a number followed by the unit suffix
ValidRate(v, unit) ==
    /\ Len(v) > Len(unit)
    /\ SubSeq(v, Len(v) - Len(unit) + 1, Len(v)) = unit
    /\ ValidNumber(SubSeq(v, 1, Len(v) - Len(unit)))

ValidMode(v) ==
    LET d == Split(v, "@")
    IN  Len(d) = 2 /\ ValidResolution(d[1]) /\ ValidRate(d[2], "Hz")

ValidValue(op, v) ==
    CASE op = "Change resolution" -> ValidResolution(v)
      [] op = "Change rate" -> ValidRate(v, " Hz")
      [] op = "Rotate" -> v \in {"Normal", "Left", "Right", "Inverted"}
      [] op = "Position" ->
            v \in {"To the left of", "To the right of", "Above", "Below",
                   "Mirroring"}

InvalidTokenError(op) ==
    CASE op = "Change resolution" -> "ParseError::Resolution"
      [] op = "Change rate" -> "ParseError::Rate"
      [] op = "Rotate" -> "ParseError::Rotation"
      [] op = "Position" -> "ParseError::Relation"

ValueOperations == {"Change resolution", "Change rate", "Rotate", "Position"}

\* the parser was given a malformed value for operation op
MalformedValue(op) ==
    /\ Parsed /\ Len(args) = 3 /\ EntryIndex(args[1]) # 0
    /\ args[2] = op /\ ~ValidValue(op, args[3])

\* Mode::parse was given a malformed mode
MalformedMode ==
    /\ backend = "xrandr_cli_mode" /\ result # NoResult /\ calls = <<>>
    /\ Len(args) = 1 /\ ~ValidMode(args[1])

\* C23 as stated: a malformed value token for resolution, rate, rotation or
\* relation (any string that is not a valid value, the empty string and
\* strings shorter than the unit suffix included) makes the parser return
\* the corresponding InvalidToken parse error; the parser never crashes on
\* such a token and never yields an action from it.
C23_InvalidToken ==
    /\ \A op \in ValueOperations :
          MalformedValue(op) =>
              result.kind = "Err" /\ result.err = InvalidTokenError(op)
    /\ MalformedMode =>
          /\ result.kind = "Err"
          /\ result.err \in {"ParseError::Resolution", "ParseError::Rate"}

\* C23 for resolution, rotation and relation
C23_InvalidTokenNoRate ==
    \A op \in ValueOperations \ {"Change rate"} :
        MalformedValue(op) =>
            result.kind = "Err" /\ result.err = InvalidTokenError(op)

\* the rate parser crashes on a text shorter than " Hz"
C23_Witness ==
    /\ MalformedValue("Change rate") /\ args[3] = "60"
    /\ result.kind = "Panic"

\* the rate parser yields an action from a text without the unit
C23_WitnessAction ==
    /\ MalformedValue("Change rate") /\ args[3] = "60.00abc"
    /\ result.kind = "Done" /\ result.action.rate = 60000

\* Mode::from_str crashes on a rate text shorter than "Hz"
C23_WitnessMode ==
    /\ MalformedMode /\ args = <<"2x1@H">> /\ result.kind = "Panic"

\* a row of the rate menu was chosen and set_rate was called with its rate
RateChosen ==
    /\ listing.method = "rate_list" /\ calls # <<>>
    /\ calls[1].method = "set_rate"

\* the current mode of the output the rate was chosen for, before and after
ModeBefore == seen[1].modes[seen[1].current]
ModeAfter == outputs[1].modes[outputs[1].current]

\* C24: for every rate entry the rate menu displays for an output, choosing
\* it makes set_rate select a mode of the output's current resolution whose
\* rate is within 0.01 of the chosen value; while the live mode list is
\* unchanged set_rate never fails with NoMatchingRate for an offered rate.
C24_OfferedRateMatches ==
    RateChosen =>
        /\ error # "SetRate::NoRate"
        /\ error = "" =>
              /\ ModeAfter.width = ModeBefore.width
              /\ ModeAfter.height = ModeBefore.height
              /\ Abs(ModeAfter.refresh - result.action.rate) < RATE_EPSILON

\* the row "60.00 Hz" of the mode 59.996 Hz was chosen
C24_Witness ==
    /\ RateChosen /\ error = "" /\ backend = "libxrandr"
    /\ args = <<"eDP-1", "Change rate", "60.00 Hz">>
    /\ result.action.rate = 60000 /\ ModeAfter.refresh = 59996

\* a method of the IPC driver has sent a command to the compositor
SwayCommandSent == backend = "swayipc" /\ calls # <<>> /\ sent # <<>>

\* the number of sub-commands of the command sent
SubCommands == Len(Split(sent[1], ";"))

ParsedDone == Parsed /\ result.kind = "Done"

\* the entry of the output the action is for
ActionEntry == Entries[EntryIndex(result.action.output)]

SupportedOps ==
    LET ops == supported_operations(backend, ActionEntry).ops
    IN  {ops[k] : k \in 1..Len(ops)}

\* C26 as stated: every Done(Action) the parser produces has an operation
\* that supported_operations of the active backend lists for the output's
\* current (connected, enabled) state; on the IPC driver no token queue
\* yields the SetPrimary action, whose method is unimplemented there.
C26_SupportedOnly ==
    ParsedDone =>
        /\ result.action.op \in SupportedOps
        /\ backend = "swayipc" => result.action.op # "SetPrimary"

\* the menu choice Disable yields Enable for an enabled output
C26_Witness ==
    /\ ParsedDone /\ args = <<"HDMI-1", "Disable">>
    /\ Active("HDMI-1") /\ result.action.op = "Enable"
    /\ "Enable" \notin SupportedOps

\* SetPrimary is produced on the IPC driver
C26_WitnessPrimary ==
    /\ ParsedDone /\ backend = "swayipc"
    /\ args = <<"eDP-1", "Make primary">>
    /\ result.action.op = "SetPrimary"

\* the parser has produced a position action
PositionDone == ParsedDone /\ result.action.op = "Position"

\* C27 as stated: every Done(Position(r, t)) for output o names a target t
\* that is an existing, enabled output different from o.
C27_TargetValid ==
    PositionDone =>
        /\ result.action.output_s # result.action.output
        /\ \E i \in 1..Len(Entries) :
              Entries[i].name = result.action.output_s /\ Entries[i].enabled

\* the rows of the target menu the user can select
TargetRows ==
    MenuRows(relatives_list(backend, seen, result.action.output,
                            result.action.relation))

\* C27 for the targets the target menu lets the user select
C27_TargetFromMenu ==
    (PositionDone /\ \E row \in TargetRows : Input(<<row>>) = args[4]) =>
        /\ result.action.output_s # result.action.output
        /\ \E i \in 1..Len(Entries) :
              Entries[i].name = result.action.output_s /\ Entries[i].enabled

\* the output is its own target, on the native driver
C27_Witness ==
    /\ PositionDone /\ backend = "libxrandr"
    /\ args = <<"eDP-1", "Position", "Above", "eDP-1">>
    /\ result.action.output_s = "eDP-1"

\* C28 as stated: every Done(Position(r, t)) has a relation r that is in
\* supported_relations() of the active backend; on the IPC driver no token
\* queue yields a SameAs position action.
C28_RelationSupported ==
    PositionDone =>
        result.action.relation \in RelationSet(supported_relations(backend))

\* C28 for the relations the relation menu shows
C28_RelationFromMenu ==
    (PositionDone
        /\ args[3] \in Texts(relation_list(backend).list)) =>
        result.action.relation \in RelationSet(supported_relations(backend))

C28_Witness ==
    /\ PositionDone /\ backend = "swayipc"
    /\ args = <<"eDP-1", "Position", "Mirroring", "HDMI-1">>
    /\ result.action.relation = "SameAs"

\* the backend method disable was called on the named output
DisableCalled(name) ==
    \E k \in 1..Len(calls) :
        calls[k].method = "disable" /\ calls[k].output_name = name

\* C29: whatever invocations came before, backend.disable(o) is called while
\* no other output is enabled only in an invocation whose queue is o, Disable
\* and then the token "Yes".
C29_ConfirmedDisable ==
    \A i \in 1..Len(Entries) :
        (DisableCalled(Entries[i].name) /\ ~OtherEnabled(Entries[i].name))
        => /\ Len(args) >= 3 /\ args[1] = Entries[i].name
           /\ args[2] = "Disable" /\ args[3] = "Yes"

C29_Witness ==
    \E i \in 1..Len(Entries) :
        /\ Ran /\ DisableCalled(Entries[i].name)
        /\ Entries[i].enabled /\ ~OtherEnabled(Entries[i].name)
        /\ args = <<Entries[i].name, "Disable", "Yes">>
        /\ \A j \in 1..Len(outputs) :
              ~get_outputs(backend, outputs)[j].enabled

SomeConnected == \E i \in 1..Len(Entries) : Entries[i].connected

\* the queue stops at the step that asks for the target of a position
TargetStep ==
    /\ Len(args) = 3 /\ args[2] = "Position"
    /\ RelationFromStr(args[3]) # ""

\* C30 as stated: with at least one connected output, every menu the parser
\* yields has at least one row the user can select, the target menu of a
\* position included.
C30_NoDeadEnd ==
    (Parsed /\ result.kind = "Next" /\ SomeConnected)
    => MenuRows(result) # {}

\* C30 for every menu but the target menu of a position
C30_NoDeadEndElsewhere ==
    (Parsed /\ result.kind = "Next" /\ SomeConnected /\ ~TargetStep)
    => MenuRows(result) # {}

\* the target menu of an output whose neighbours are all disabled
C30_Witness ==
    /\ Parsed /\ result.kind = "Next" /\ TargetStep
    /\ Active(args[1]) /\ ~OtherEnabled(args[1])
    /\ Len(result.list) > 0 /\ MenuRows(result) = {}

\* C31: the parser consumes at most four tokens: on a queue of four or more
\* tokens it yields Done or fails (a panic ends the invocation as well) and
\* never yields a menu, so every menu is shown on at most three tokens and
\* the fourth choice of a session without Back ends it.
C31_AtMostFourTokens ==
    (Parsed /\ Len(args) >= 4) => result.kind \in {"Done", "Err", "Panic"}

\* a fifth token is ignored, a position is done on its fourth token
C31_Witness ==
    /\ Parsed /\ args = <<"eDP-1", "Position", "Above", "HDMI-1", "Yes">>
    /\ result = Done([Action("eDP-1", "Position") EXCEPT
                         !.relation = "Above", !.output_s = "HDMI-1"])

\* the queue in args is the one before it with a selectable row of the menu
\* then on screen pushed by get_args()
RowChosen ==
    /\ Parsed /\ before.pushed /\ seen = outputs
    /\ \E row \in MenuRows(before.result) :
          args = get_args(before.data, <<row>>)

\* C32: while the output set is unchanged, every selectable row of a menu
\* the parser emits is accepted when it is chosen as the next token (its
\* text before the markup, trimmed): the next invocation yields Next or
\* Done and neither NoSuchOutput nor an invalid operation or token.
C32_RowAccepted ==
    RowChosen => /\ result.kind \in {"Next", "Done"}
                 /\ error = ""

\* a rate chosen from the rate menu, with its markup comment
C32_Witness ==
    /\ RowChosen /\ Len(args) = 3 /\ args[2] = "Change rate"
    /\ \E k \in 1..Len(before.result.list) :
          /\ before.result.list[k].comments = <<"Current">>
          /\ args[3] = before.result.list[k].text
    /\ result.kind = "Done" /\ result.action.op = "ChangeRate"

\* an operation chosen from the operation menu
C32_WitnessOperation ==
    /\ RowChosen /\ args = <<"eDP-1", "Rotate">>
    /\ before.data = "eDP-1" /\ result.kind = "Next"

Unreachable == Panic("unreachable: SwayIPC does not list disconnected outputs")

\* C33: on the IPC driver supported_operations is never called with a
\* disconnected output: every entry the parser hands it comes from that
\* driver's get_outputs, which reports every output as connected, so the
\* unreachable! branch is executed for no token queue.
C33_NeverUnreachable ==
    (Parsed /\ backend = "swayipc")
    => /\ \A i \in 1..Len(Entries) : Entries[i].connected
       /\ result # Unreachable

\* the operation menu of a disabled output of the compositor
C33_Witness ==
    /\ Parsed /\ backend = "swayipc" /\ args = <<"HDMI-1">>
    /\ ~Entries[EntryIndex("HDMI-1")].enabled
    /\ result = operation_list(backend, Entries[EntryIndex("HDMI-1")])
    /\ result.kind = "Next"

\* the last call was set_position of the compositor driver on two outputs
\* it knows, and it did not panic
LayoutCall ==
    /\ backend = "swayipc" /\ calls # <<>> /\ result.kind = "Done"
    /\ result.action.op = "Position" /\ exit_code # 101
    /\ OutputIndex(seen, result.action.output) # 0
    /\ OutputIndex(seen, result.action.output_s) # 0

\* the index of the moved output
Moved == OutputIndex(seen, result.action.output)

\* the rectangles the call aims at: the moved output set relative to the
\* reference output, then the whole layout normalized
Target ==
    LET ref == seen[OutputIndex(seen, result.action.output_s)].rect
        xy == RelativeOrigin(result.action.relation, seen[Moved].rect.width,
                             seen[Moved].rect.height, ref)
    IN  normalize_all_outputs(
            [seen EXCEPT ![Moved].rect.x = Wrap(xy.x),
                         ![Moved].rect.y = Wrap(xy.y)])

\* the outputs whose rectangle the call has to change
Differing == {k \in 1..Len(seen) : Target[k].rect # seen[k].rect}

\* the sub-commands of the command string that was sent
SentCommands == IF sent = <<>> THEN <<>> ELSE Split(sent[1], ";")

PositionCommand(o) ==
    "output " \o o.name \o " pos " \o IntToStr(o.rect.x) \o " "
        \o IntToStr(o.rect.y)

C34_WitnessNoChange ==
    /\ LayoutCall /\ Len(calls) = 1 /\ Differing = {}
    /\ sent = <<>> /\ error = "" /\ outputs = seen

\* set_position was called a second time with the arguments of a first call
\* whose sub-commands were all applied, on an output and a reference output
\* that differ
Repeated ==
    /\ backend = "swayipc" /\ Len(calls) = 2
    /\ calls[1].method = "set_position" /\ calls[1].returned = ""
    /\ calls[2] = [calls[1] EXCEPT !.returned = calls[2].returned]
    /\ result.action.output # result.action.output_s

\* the first call left the layout normalized and the moved output where the
\* relation puts it, as it does when none of its operations overflows
FirstCallExact ==
    LET o == seen[OutputIndex(seen, result.action.output)].rect
        ref == seen[OutputIndex(seen, result.action.output_s)].rect
    IN  /\ Min({seen[k].rect.x : k \in 1..Len(seen)}) = 0
        /\ Min({seen[k].rect.y : k \in 1..Len(seen)}) = 0
        /\ RelativeOrigin(result.action.relation, o.width, o.height, ref)
              = [x |-> o.x, y |-> o.y]

\* C35: set_position of the IPC driver is idempotent: when all sub-commands
\* of a first call were applied, a second call with the same output,
\* relation and (distinct) reference output emits no sub-command and leaves
\* the rectangle of every output as it was.
C35_Idempotent ==
    Repeated => /\ sent = <<>> /\ error = "" /\ exit_code = 0
                /\ outputs = seen

\* C35 for a first call that worked without overflow
C35_IdempotentExact ==
    (Repeated /\ FirstCallExact) => C35_Idempotent

\* the first call wrapped around in a build without overflow checks, and the
\* second call moves the outputs again
C35_Witness ==
    /\ Repeated /\ ~FirstCallExact /\ ~reply.overflow_checks
    /\ sent # <<>> /\ outputs # seen /\ error = ""

\* the first call moved the output, the second one found nothing to do
C35_WitnessExact ==
    /\ Repeated /\ FirstCallExact /\ sent = <<>> /\ outputs = seen
    /\ calls[1].arg.relation = "LeftOf"

\* the outputs other than the moved one
Others == (1..Len(seen)) \ {Moved}

\* the last call was a set_position of the compositor driver that returned
\* Ok with every sub-command applied
LayoutDone == LayoutCall /\ error = "" /\ exit_code = 0

\* C36: set_position of the IPC driver changes no output's width or height,
\* and it preserves the offset between every two outputs other than the
\* moved one: all of them are translated by one and the same vector.
C36_RigidShift ==
    LayoutDone =>
        /\ Len(outputs) = Len(seen)
        /\ \A k \in 1..Len(seen) :
              /\ outputs[k].name = seen[k].name
              /\ outputs[k].rect.width = seen[k].rect.width
              /\ outputs[k].rect.height = seen[k].rect.height
        /\ \A k, l \in Others :
              /\ outputs[k].rect.x - seen[k].rect.x
                    = outputs[l].rect.x - seen[l].rect.x
              /\ outputs[k].rect.y - seen[k].rect.y
                    = outputs[l].rect.y - seen[l].rect.y

\* the layout after the call is normalized: no subtraction of
\* normalize_all_outputs left the range of i32
ShiftInRange == XMin = 0 /\ YMin = 0

\* C36 for a call none of whose subtractions overflows
C36_RigidShiftInRange ==
    (LayoutDone /\ ShiftInRange) => C36_RigidShift

\* the two other outputs were shifted by different vectors
C36_Witness ==
    /\ LayoutDone /\ Cardinality(Others) = 2 /\ ~reply.overflow_checks
    /\ \E k, l \in Others :
          outputs[k].rect.x - seen[k].rect.x
            # outputs[l].rect.x - seen[l].rect.x

\* the two other outputs were shifted by the same vector, not zero
C36_WitnessInRange ==
    /\ LayoutDone /\ ShiftInRange /\ Cardinality(Others) = 2
    /\ \A k \in Others : outputs[k].rect.x - seen[k].rect.x = 1

Live(name) == OutputIndex(seen, name) # 0

\* the name the last call could not resolve: the output, or else the
\* reference output of a position
Unresolved ==
    IF ~Live(calls[1].output_name) THEN calls[1].output_name
    ELSE calls[1].arg.output_s

\* set_position or set_rotation of a driver that looks its outputs up was
\* given a name that is not a live output
UnknownName ==
    /\ backend \in {"libxrandr", "swayipc"} /\ Len(calls) = 1
    /\ \/ calls[1].method = "set_rotation" /\ ~Live(calls[1].output_name)
       \/ /\ calls[1].method = "set_position"
          /\ ~Live(calls[1].output_name) \/ ~Live(calls[1].arg.output_s)

NoOutputOf(method) ==
    CASE method = "set_rotation" -> "SetRotation::NoOutput"
      [] method = "set_position" -> "SetPosition::NoOutput"

\* C37 as stated: given a name that is not a live output, set_position and
\* set_rotation change nothing and return the NoSuchOutput failure of that
\* same operation, carrying the name that could not be resolved.
C37_NoSuchOutput ==
    UnknownName =>
        /\ outputs = seen /\ sent = <<>>
        /\ calls[1].returned = NoOutputOf(calls[1].method)
        /\ calls[1].detail = <<Unresolved>>

\* C37 without the kind of failure and the name it carries
C37_NothingChanged ==
    UnknownName =>
        /\ outputs = seen /\ sent = <<>>
        /\ calls[1].returned \in {"SetRotation::NoOutput",
                                  "SetPosition::NoOutput", "Enable::NoOutput"}

\* C37 on the native driver when it is the output itself that is unknown
C37_NativeOutput ==
    (UnknownName /\ backend = "libxrandr" /\ ~Live(calls[1].output_name))
    => C37_NoSuchOutput

\* the native set_position with an unknown reference output
C37_Witness ==
    /\ UnknownName /\ backend = "libxrandr"
    /\ calls[1].method = "set_position" /\ calls[1].output_name = "eDP-1"
    /\ calls[1].arg.output_s = "VGA-1"
    /\ calls[1].returned = "SetPosition::NoOutput"
    /\ calls[1].detail = <<"eDP-1">>

\* set_rotation of the compositor driver on an unknown output
C37_WitnessRotation ==
    /\ UnknownName /\ backend = "swayipc"
    /\ calls[1].method = "set_rotation" /\ calls[1].output_name = "VGA-1"
    /\ calls[1].returned = "Enable::NoOutput" /\ outputs = seen

\* set_rate was called on an output the display server has
SetRateCalled ==
    /\ calls # <<>> /\ calls[1].method = "set_rate"
    /\ OutputIndex(seen, calls[1].output_name) # 0

RateOutput == OutputIndex(seen, calls[1].output_name)

\* the resolution of a mode as the commands spell it
ResolutionStr(m) == NatToStr(m.width) \o "x" \o NatToStr(m.height)

\* the command of a set_rate up to the rate, for the resolution of mode m
RateCommand(m) ==
    CASE backend = "swayipc" ->
           "output " \o calls[1].output_name \o " mode " \o ResolutionStr(m)
           \o "@"
      [] backend = "xrandr_cli" ->
           "xrandr --output " \o calls[1].output_name \o " --mode "
           \o ResolutionStr(m) \o " --rate "
      [] OTHER ->
           "XHandle::set_mode " \o calls[1].output_name \o " "
           \o ResolutionStr(m) \o "@"

StartsWith(s, prefix) ==
    Len(s) >= Len(prefix) /\ SubSeq(s, 1, Len(prefix)) = prefix

\* C38: set_rate never changes the resolution: the mode it selects has the
\* width and height of the output's current mode, and for an output without
\* a current mode it fails without issuing any command.
C38_ResolutionKept ==
    SetRateCalled =>
        LET o == seen[RateOutput]
        IN  IF o.current = 0
            THEN /\ error = "SetRate::NoMode" /\ sent = <<>>
                 /\ outputs = seen
            ELSE /\ Len(sent) <= 1
                 /\ \A c \in 1..Len(sent) :
                       StartsWith(sent[c], RateCommand(o.modes[o.current]))
                 /\ outputs[RateOutput].current # 0
                 /\ SameResolution(
                        outputs[RateOutput].modes[outputs[RateOutput].current],
                        o.modes[o.current])

\* another rate of the current resolution was set although a mode of another
\* resolution with that rate comes first in the list
C38_Witness ==
    /\ SetRateCalled /\ error = "" /\ sent # <<>>
    /\ seen[RateOutput].current = 3 /\ outputs[RateOutput].current = 2
    /\ ~SameResolution(seen[RateOutput].modes[1], seen[RateOutput].modes[3])
    /\ seen[RateOutput].modes[1].refresh = seen[RateOutput].modes[2].refresh

\* set_rate on an output that has no current mode
C38_WitnessNoMode ==
    /\ SetRateCalled /\ seen[RateOutput].current = 0
    /\ error = "SetRate::NoMode" /\ sent = <<>>

ResolutionsListed == listing.method = "get_resolutions" /\ listing.err = ""

\* C39: the resolution list a driver returns for an output contains each
\* width x height at most once, whatever order the display server reports
\* the output's modes in.
C39_EachResolutionOnce ==
    ResolutionsListed =>
        \A i, j \in 1..Len(listing.list) :
            i < j => ~SameResolution(listing.list[i], listing.list[j])

C39_EachResolutionOnceSway ==
    backend = "swayipc" => C39_EachResolutionOnce

\* the native driver keeps a resolution twice when another one of the same
\* pixel count is reported in between
C39_Witness ==
    /\ ResolutionsListed /\ backend = "libxrandr" /\ Len(listing.list) = 3
    /\ SameResolution(listing.list[1], listing.list[3])
    /\ ~SameResolution(listing.list[1], listing.list[2])
    /\ listing.list[1].width * listing.list[1].height
         = listing.list[2].width * listing.list[2].height

\* the compositor driver returns it once for the same modes
C39_WitnessSway ==
    /\ ResolutionsListed /\ backend = "swayipc" /\ Len(listing.list) = 2
    /\ Len(outputs[1].modes) = 3
    /\ SameResolution(outputs[1].modes[1], outputs[1].modes[3])
    /\ ~SameResolution(outputs[1].modes[1], outputs[1].modes[2])

\* the entries of the resolution list that are marked current
MarkedCurrent == {k \in 1..Len(listing.list) : listing.list[k].current}

\* a resolution list was returned for an output that is enabled
EnabledListed == ResolutionsListed /\ outputs[1].current # 0

\* C40: for an enabled output exactly one entry of its resolution list is
\* marked current, the entry with the width and height of the current mode;
\* deduplication never drops that mark, whichever of that resolution's
\* rates is the active one.
C40_OneCurrent ==
    EnabledListed =>
        /\ Cardinality(MarkedCurrent) = 1
        /\ \A k \in MarkedCurrent :
              SameResolution(listing.list[k],
                             outputs[1].modes[outputs[1].current])

C40_OneCurrentSway == backend = "swayipc" => C40_OneCurrent

\* the CLI driver: the active rate is the second mode of its resolution, and
\* the entry that is left is not marked
C40_Witness ==
    /\ EnabledListed /\ backend = "xrandr_cli" /\ MarkedCurrent = {}
    /\ outputs[1].current = 2 /\ Len(listing.list) = 1
    /\ SameResolution(outputs[1].modes[1], outputs[1].modes[2])
    /\ outputs[1].modes[1].refresh # outputs[1].modes[2].refresh

\* the compositor driver in the same case
C40_WitnessSway ==
    /\ EnabledListed /\ backend = "swayipc" /\ MarkedCurrent = {1}
    /\ outputs[1].current = 2 /\ Len(listing.list) = 1
    /\ SameResolution(outputs[1].modes[1], outputs[1].modes[2])
    /\ outputs[1].modes[1].refresh # outputs[1].modes[2].refresh

====
